---------------------------- MODULE Spec2Model ----------------------------
(***************************************************************************)
(* A model of duckedyduck: the mutation rule catalog and the selection     *)
(* orchestrator (injector), the change-range diff extractor and the text   *)
(* normalization of the editor glue.                                       *)
(*                                                                         *)
(* Syntax trees are records with a "type" field, as Babel's are.  Names    *)
(* are sequences of one-character strings so that the homoglyph rule can   *)
(* index them.  Texts are sequences of one-character strings too.          *)
(***************************************************************************)
EXTENDS Integers, Sequences, FiniteSets, TLC

VARIABLES
    \* ---- one run of injectBugs / applyManyBugs
    algo,        \* which orchestrator runs: "injectBugs" or "applyManyBugs"
    code,        \* the source text handed to the run
    maxBugs,     \* the requested number of bugs
    ast,         \* the (mutable) tree of the run
    applied,     \* applied: BugKind[]
    used,        \* used: Set<BugKind>
    pc,          \* "loop" (at the while test), "done" (returned)
    result,      \* what the run returned: [code, applied]
    okRounds,    \* rounds of the while loop that applied a rule
    failRounds,  \* rounds of the while loop in which no rule succeeded
    \* ---- one direct call of a mutator
    rAst,        \* the tree the mutators are called on
    rPrev,       \* the tree before the last call
    rKind,       \* the kind of the last call ("none" before the first)
    rOk,         \* what the last call returned
    rCalls,      \* number of calls made
    \* ---- one call of recordDuckHistory's diff (getChangedLineRange, getLineSlice)
    before,        \* the text before the mutation (a sequence of characters)
    after,         \* the text after it
    start,         \* getChangedLineRange's `start`
    endBefore,     \* getChangedLineRange's `endBefore`
    endAfter,      \* getChangedLineRange's `endAfter`
    range,         \* what getChangedLineRange returned
    beforeSnippet, \* getLineSlice(before, range.startLine, range.endLine)
    afterSnippet,  \* getLineSlice(after, range.startLine, range.endLine)
    dpc,           \* "call", "forward", "backward", "slice", "done"
    \* ---- one call of the normalization step
    newCode,       \* the regenerated text
    originalCode,  \* the text of the buffer
    eol,           \* the buffer's end-of-line convention: "LF" or "CRLF"
    finalCode,     \* the text the step returned
    npc,           \* "call", "done"
    \* ---- one call of getBugsPerRun
    configured,    \* the configured bugsPerRun
    bugsPerRun,    \* what getBugsPerRun returned
    cpc,           \* "call", "done" (part_001), "done.ext" (extension.ts)
    \* ---- calls of one operator table
    opTable,       \* which table is called
    operator,      \* the operator the table is first called on
    flipped,       \* the results of the calls made so far, in order
    tpc,           \* "call", "done"
    \* ---- the extension around the injector (part_001)
    doc,               \* the text of the document in the editor
    languageId,        \* the document's language
    activeEditor,      \* whether an editor showing the document is active
    autoInjectEnabled, \* module state
    duckEditing,       \* module state
    pendingRoast,      \* module state: 0 for null, else the roast of invocation i
    history,           \* globalState's HISTORY_KEY
    historyFile,       \* .duckedyduck/history.md, as the blocks it holds
    inv,               \* the handler invocations so far, with their locals
    \* ---- one call of getDuckRoast (roaster.ts)
    apiKey,        \* config.get('llmApiKey')
    llmEndpoint,   \* config.get('llmEndpoint')
    bugsApplied,   \* the argument
    response,      \* what fetch settled with
    fetches,       \* number of requests issued
    roast,         \* how the returned promise settled, and with what value
    qpc            \* "call", "fetch", "json", "done"

injVars  == <<algo, code, maxBugs, ast, applied, used, pc, result, okRounds, failRounds>>
ruleVars == <<rAst, rPrev, rKind, rOk, rCalls>>
diffVars == <<before, after, start, endBefore, endAfter, range, beforeSnippet,
              afterSnippet, dpc>>
normVars == <<newCode, originalCode, eol, finalCode, npc>>
cfgVars  == <<configured, bugsPerRun, cpc>>
tblVars  == <<opTable, operator, flipped, tpc>>
glueVars == <<doc, languageId, activeEditor, autoInjectEnabled, duckEditing,
              pendingRoast, history, historyFile, inv>>
roastVars == <<apiKey, llmEndpoint, bugsApplied, response, fetches, roast, qpc>>
restVars == <<cfgVars, tblVars, glueVars, roastVars>>
vars     == <<injVars, ruleVars, diffVars, normVars, restVars>>

-----------------------------------------------------------------------------
(* Generic helpers                                                         *)

Min(a, b) == IF a <= b THEN a ELSE b
Max(a, b) == IF a >= b THEN a ELSE b

Range(s) == {s[i] : i \in 1..Len(s)}

-----------------------------------------------------------------------------
(* Syntax tree nodes (the Babel node types the rules look at)              *)

Id(name)            == [type |-> "Identifier", name |-> name]
Num(v)              == [type |-> "NumericLiteral", value |-> v]
Bool(v)             == [type |-> "BooleanLiteral", value |-> v]
NullLit             == [type |-> "NullLiteral"]
Bin(op, l, r)       == [type |-> "BinaryExpression", operator |-> op, left |-> l, right |-> r]
Logical(op, l, r)   == [type |-> "LogicalExpression", operator |-> op, left |-> l, right |-> r]
Cond(t, c, a)       == [type |-> "ConditionalExpression", test |-> t, consequent |-> c, alternate |-> a]
Unary(op, arg)      == [type |-> "UnaryExpression", operator |-> op, argument |-> arg, prefix |-> TRUE]
Paren(e)            == [type |-> "ParenthesizedExpression", expression |-> e]
Member(o, p, comp)  == [type |-> "MemberExpression", object |-> o, property |-> p, computed |-> comp]
Call(callee, args)  == [type |-> "CallExpression", callee |-> callee, arguments |-> args]
ExprStmt(e)         == [type |-> "ExpressionStatement", expression |-> e]
Declarator(id, ini) == [type |-> "VariableDeclarator", id |-> id, init |-> ini]
VarDecl(kind, ds)   == [type |-> "VariableDeclaration", kind |-> kind, declarations |-> ds]
Block(stmts)        == [type |-> "BlockStatement", body |-> stmts]
FuncDecl(id, ps, b) == [type |-> "FunctionDeclaration", id |-> id, params |-> ps, body |-> b]
ForStmt(test, body) == [type |-> "ForStatement", test |-> test, body |-> body]
WhileStmt(test, b)  == [type |-> "WhileStatement", test |-> test, body |-> b]
DoWhile(b, test)    == [type |-> "DoWhileStatement", body |-> b, test |-> test]
Program(stmts)      == [type |-> "Program", body |-> stmts]
File                == [type |-> "File"]

\* The keys Babel's traverse visits, in order (VISITOR_KEYS), for the fields the
\* trees of this model carry.  A ForStatement's init and update are absent
\* (null) in every tree of the model and so are not listed.
VisitorKeys(node) ==
    CASE node.type = "Program"                 -> <<"body">>
      [] node.type = "BlockStatement"          -> <<"body">>
      [] node.type = "ExpressionStatement"     -> <<"expression">>
      [] node.type = "VariableDeclaration"     -> <<"declarations">>
      [] node.type = "VariableDeclarator"      -> <<"id", "init">>
      [] node.type = "FunctionDeclaration"     -> <<"id", "params", "body">>
      [] node.type = "ForStatement"            -> <<"test", "body">>
      [] node.type = "WhileStatement"          -> <<"test", "body">>
      [] node.type = "DoWhileStatement"        -> <<"body", "test">>
      [] node.type = "BinaryExpression"        -> <<"left", "right">>
      [] node.type = "LogicalExpression"       -> <<"left", "right">>
      [] node.type = "ConditionalExpression"   -> <<"test", "consequent", "alternate">>
      [] node.type = "UnaryExpression"         -> <<"argument">>
      [] node.type = "ParenthesizedExpression" -> <<"expression">>
      [] node.type = "MemberExpression"        -> <<"object", "property">>
      [] node.type = "CallExpression"          -> <<"callee", "arguments">>
      [] OTHER                                 -> <<>>

IsListKey(node, k) ==
    \/ node.type \in {"Program", "BlockStatement"} /\ k = "body"
    \/ k \in {"declarations", "params", "arguments"}

HasOperator(node) ==
    node.type \in {"BinaryExpression", "LogicalExpression", "UnaryExpression"}

-----------------------------------------------------------------------------
(* Scopes, as far as applyScopeGaslightingBug asks Babel about them        *)

\* Scope.globals as far as the model's programs name one: hasBinding(name)
\* answers true for a builtin such as Math although no scope binds it.
BabelGlobals == {<<"M", "a", "t", "h">>}

\* The names a statement list declares in the scope that owns it.
DeclaredNames(stmts) ==
    UNION {
        IF stmts[i].type = "VariableDeclaration"
        THEN {stmts[i].declarations[j].id.name : j \in 1..Len(stmts[i].declarations)}
        ELSE IF stmts[i].type = "FunctionDeclaration"
        THEN {stmts[i].id.name}
        ELSE {} : i \in 1..Len(stmts)}

IsScope(node) == node.type \in {"Program", "FunctionDeclaration"}

\* scope.hasOwnBinding: the bindings of the scope a Program or function opens.
OwnBindings(node) ==
    IF node.type = "Program" THEN DeclaredNames(node.body)
    ELSE IF node.type = "FunctionDeclaration"
    THEN {node.params[i].name : i \in 1..Len(node.params)}
         \cup DeclaredNames(node.body.body)
    ELSE {}

\* path.isReferencedIdentifier() for an Identifier under `parent` at `key`.
IsReferencedIdentifier(node, parent, key, listKey) ==
    /\ node.type = "Identifier"
    /\ ~(parent.type = "VariableDeclarator" /\ key = "id")
    /\ ~(parent.type = "FunctionDeclaration" /\ (key = "id" \/ listKey = "params"))
    /\ ~(parent.type = "MemberExpression" /\ key = "property" /\ ~parent.computed)

RECURSIVE RefIds(_, _, _, _), RefIdsKeys(_, _), RefIdsList(_, _, _)
\* The names of the referenced identifiers at and below `node`, in traversal order.
RefIds(node, parent, key, listKey) ==
    IF node.type = "Identifier"
    THEN IF IsReferencedIdentifier(node, parent, key, listKey) THEN <<node.name>> ELSE <<>>
    ELSE RefIdsKeys(node, 1)
RefIdsKeys(node, i) ==
    IF i > Len(VisitorKeys(node)) THEN <<>>
    ELSE LET k == VisitorKeys(node)[i] IN
         (IF IsListKey(node, k) THEN RefIdsList(node, k, 1)
          ELSE RefIds(node[k], node, k, "")) \o RefIdsKeys(node, i + 1)
RefIdsList(node, k, j) ==
    IF j > Len(node[k]) THEN <<>>
    ELSE RefIds(node[k][j], node, "index", k) \o RefIdsList(node, k, j + 1)

-----------------------------------------------------------------------------
(* Helpers of the injector                                                 *)

addOneToIndexLiteral(n) == IF n <= 0 THEN n + 1 ELSE n + 1

shouldParenthesizeForNegation(expr) ==
    expr.type \in {"BinaryExpression", "LogicalExpression", "ConditionalExpression",
                   "SequenceExpression", "AssignmentExpression"}

negateExpression(expr) ==
    LET argument == IF shouldParenthesizeForNegation(expr) THEN Paren(expr) ELSE expr
    IN  Unary("!", argument)

\* Look-alike characters are written by their code point.
HomoglyphKeys == {"a", "c", "e", "o", "p", "x", "y"}
HOMOGLYPHS(char) ==
    CASE char = "a" -> "U+0430"
      [] char = "c" -> "U+0441"
      [] char = "e" -> "U+0435"
      [] char = "o" -> "U+043E"
      [] char = "p" -> "U+0440"
      [] char = "x" -> "U+0445"
      [] char = "y" -> "U+0443"
      [] OTHER      -> "undefined"

\* The operator tables; "undefined" is what a lookup of any other key gives.
flipBoundary(op) ==
    CASE op = "<" -> "<=" [] op = "<=" -> "<" [] op = ">" -> ">=" [] op = ">=" -> ">"
      [] OTHER -> "undefined"
\* A variant of the direction table whose ">=" entry maps to "<".
comparisonDirectionMapSkewed(op) ==
    CASE op = ">" -> "<" [] op = "<" -> ">" [] op = ">=" -> "<" [] op = "<=" -> ">="
      [] OTHER -> "undefined"
comparisonDirectionMap(op) ==
    CASE op = ">" -> "<" [] op = "<" -> ">" [] op = ">=" -> "<=" [] op = "<=" -> ">="
      [] OTHER -> "undefined"
\* A variant of the equality table that is an involution on all four operators.
equalityInequalityMapInvolutive(op) ==
    CASE op = "==" -> "!=" [] op = "!=" -> "==" [] op = "===" -> "!==" [] op = "!==" -> "==="
      [] OTHER -> "undefined"
equalityInequalityMap(op) ==
    CASE op = "==" -> "!==" [] op = "!=" -> "===" [] op = "===" -> "!==" [] op = "!==" -> "==="
      [] OTHER -> "undefined"
wrongArithmeticMap(op) ==
    CASE op = "+" -> "-" [] op = "-" -> "+" [] op = "*" -> "/" [] op = "/" -> "*" [] op = "%" -> "/"
      [] OTHER -> "undefined"
logicToBit(op) ==
    CASE op = "&&" -> "&" [] op = "||" -> "|" [] OTHER -> "undefined"
bitToLogic(op) ==
    CASE op = "&" -> "&&" [] op = "|" -> "||" [] OTHER -> "undefined"

\* What a visitor hands back: the node as it left it and whether it set
\* didMutate and stopped the traversal.
Pass(node) == [stop |-> FALSE, node |-> node]
Hit(node)  == [stop |-> TRUE, node |-> node]

-----------------------------------------------------------------------------
(* The visitors of the mutators: what each does at one node                *)

BugKind == {"booleanNegation", "offByOne", "logicalAndOrSwap", "comparisonDirectionFlip",
            "equalityInequalityFlip", "invertTernaryBranches", "wrongArithmeticOperator",
            "bitwiseLogicalSwap", "indexOffByOne", "generalBoundaryOffByOne",
            "homoglyphSabotage", "scopeGaslighting"}

\* Index of the first character of `name` that HOMOGLYPHS maps, 0 if none.
FirstHomoglyphIndex(name) ==
    LET hits == {i \in 1..Len(name) : name[i] \in HomoglyphKeys}
    IN  IF hits = {} THEN 0 ELSE CHOOSE i \in hits : \A j \in hits : i <= j

\* A variant that renames the first identifier with a mapped character,
\* declaration site or not.
VisitHomoglyphSabotageAnyIdentifier(node, parent, key) ==
    IF /\ node.type = "Identifier"
       /\ FirstHomoglyphIndex(node.name) > 0
    THEN LET name == node.name
             i == FirstHomoglyphIndex(name)
             newName == SubSeq(name, 1, i - 1) \o <<HOMOGLYPHS(name[i])>>
                        \o SubSeq(name, i + 1, Len(name))
         IN  Hit([node EXCEPT !.name = newName])
    ELSE Pass(node)

VisitHomoglyphSabotage(node, parent, key) ==
    IF /\ node.type = "Identifier"
       /\ key = "id"
       /\ parent.type \in {"VariableDeclarator", "FunctionDeclaration"}
       /\ FirstHomoglyphIndex(node.name) > 0
    THEN LET name == node.name
             i == FirstHomoglyphIndex(name)
             newName == SubSeq(name, 1, i - 1) \o <<HOMOGLYPHS(name[i])>>
                        \o SubSeq(name, i + 1, Len(name))
         IN  Hit([node EXCEPT !.name = newName])
    ELSE Pass(node)

VisitScopeGaslighting(node, outer) ==
    IF node.type = "FunctionDeclaration" /\ node.body.type = "BlockStatement"
    THEN LET own == OwnBindings(node)
             IsUsedGlobal(name) ==
                 /\ name \in (own \cup outer \cup BabelGlobals)   \* hasBinding
                 /\ name \notin own                                \* !hasOwnBinding
             usedGlobals == SelectSeq(RefIdsKeys(node, 1), IsUsedGlobal)
         IN  IF Len(usedGlobals) > 0
             THEN LET victim == usedGlobals[1]
                      shadow == VarDecl("let", <<Declarator(Id(victim), NullLit)>>)
                  IN  Hit([node EXCEPT !.body.body = <<shadow>> \o @])
             ELSE Pass(node)
    ELSE Pass(node)

\* A variant without the test of the parent.
VisitBooleanNegationStacking(node, parent) ==
    LET isBool == node.type = "BooleanLiteral"
        isComp == /\ node.type = "BinaryExpression"
                  /\ node.operator \in {"==", "!=", "===", "!==", "<", "<=", ">", ">="}
    IN  IF isBool \/ isComp \/ node.type = "LogicalExpression"
        THEN Hit(negateExpression(node))
        ELSE Pass(node)

VisitBooleanNegation(node, parent) ==
    IF parent.type = "UnaryExpression" /\ parent.operator = "!" THEN Pass(node)
    ELSE LET isBool == node.type = "BooleanLiteral"
             isComp == /\ node.type = "BinaryExpression"
                       /\ node.operator \in {"==", "!=", "===", "!==", "<", "<=", ">", ">="}
         IN  IF isBool \/ isComp \/ node.type = "LogicalExpression"
             THEN Hit(negateExpression(node))
             ELSE Pass(node)

VisitOffByOne(node) ==
    IF /\ node.type \in {"ForStatement", "WhileStatement", "DoWhileStatement"}
       /\ node.test.type = "BinaryExpression"
       /\ flipBoundary(node.test.operator) # "undefined"
    THEN Hit([node EXCEPT !.test.operator = flipBoundary(@)])
    ELSE Pass(node)

VisitLogicalAndOrSwap(node) ==
    IF node.type = "LogicalExpression" /\ node.operator = "&&"
    THEN Hit([node EXCEPT !.operator = "||"])
    ELSE IF node.type = "LogicalExpression" /\ node.operator = "||"
    THEN Hit([node EXCEPT !.operator = "&&"])
    ELSE Pass(node)

VisitComparisonDirectionFlip(node) ==
    IF node.type = "BinaryExpression" /\ comparisonDirectionMap(node.operator) # "undefined"
    THEN Hit([node EXCEPT !.operator = comparisonDirectionMap(@)])
    ELSE Pass(node)

VisitEqualityInequalityFlip(node) ==
    IF node.type = "BinaryExpression" /\ equalityInequalityMap(node.operator) # "undefined"
    THEN Hit([node EXCEPT !.operator = equalityInequalityMap(@)])
    ELSE Pass(node)

VisitInvertTernaryBranches(node) ==
    IF node.type = "ConditionalExpression"
    THEN Hit([node EXCEPT !.consequent = node.alternate, !.alternate = node.consequent])
    ELSE Pass(node)

VisitWrongArithmeticOperator(node) ==
    IF node.type = "BinaryExpression" /\ wrongArithmeticMap(node.operator) # "undefined"
    THEN Hit([node EXCEPT !.operator = wrongArithmeticMap(@)])
    ELSE Pass(node)

VisitBitwiseLogicalSwap(node) ==
    IF node.type = "LogicalExpression" /\ logicToBit(node.operator) # "undefined"
    THEN Hit(Bin(logicToBit(node.operator), node.left, node.right))
    ELSE IF node.type = "BinaryExpression" /\ bitToLogic(node.operator) # "undefined"
    THEN Hit(Logical(bitToLogic(node.operator), node.left, node.right))
    ELSE Pass(node)

\* A visitor that bumps the index but neither sets didMutate nor stops.
VisitIndexOffByOneUnflagged(node) ==
    IF /\ node.type = "MemberExpression"
       /\ node.computed
       /\ node.property.type = "NumericLiteral"
    THEN Pass([node EXCEPT !.property.value = addOneToIndexLiteral(@)])
    ELSE Pass(node)

VisitIndexOffByOne(node) ==
    IF /\ node.type = "MemberExpression"
       /\ node.computed
       /\ node.property.type = "NumericLiteral"
    THEN Hit([node EXCEPT !.property.value = addOneToIndexLiteral(@)])
    ELSE Pass(node)

VisitGeneralBoundaryOffByOne(node) ==
    IF node.type = "BinaryExpression" /\ flipBoundary(node.operator) # "undefined"
    THEN Hit([node EXCEPT !.operator = flipBoundary(@)])
    ELSE Pass(node)

\* ---- the visitors of src/extension.ts that differ from the injector's

VisitBooleanNegationExt(node, parent) ==
    IF parent.type = "UnaryExpression" /\ parent.operator = "!" THEN Pass(node)
    ELSE IF node.type = "BooleanLiteral" THEN Hit(negateExpression(node))
    ELSE IF /\ node.type = "BinaryExpression"
            /\ node.operator \in {"==", "!=", "===", "!==", "<", "<=", ">", ">=",
                                  "in", "instanceof"}
    THEN Hit(negateExpression(node))
    ELSE IF node.type = "LogicalExpression" THEN Hit(negateExpression(node))
    ELSE Pass(node)

\* The empty name stands for undefined (both are falsy for `if (!method)`).
getMemberPropertyName(node) ==
    IF node.computed THEN <<>>
    ELSE IF node.property.type = "Identifier" THEN node.property.name
    ELSE IF node.property.type = "StringLiteral" THEN node.property.value
    ELSE <<>>

IndexyMethods == {<<"a", "t">>, <<"c", "h", "a", "r", "A", "t">>, <<"s", "l", "i", "c", "e">>,
                  <<"s", "u", "b", "s", "t", "r", "i", "n", "g">>, <<"s", "u", "b", "s", "t", "r">>}

VisitIndexOffByOneExt(node) ==
    IF /\ node.type = "MemberExpression"
       /\ node.computed
       /\ node.property.type = "NumericLiteral"
    THEN Hit([node EXCEPT !.property = Num(addOneToIndexLiteral(node.property.value))])
    ELSE IF /\ node.type = "CallExpression"
            /\ node.callee.type \in {"MemberExpression", "OptionalMemberExpression"}
            /\ getMemberPropertyName(node.callee) \in IndexyMethods
    THEN LET numeric == {i \in 1..Len(node.arguments) :
                             node.arguments[i].type = "NumericLiteral"}
         IN  IF numeric = {} THEN Pass(node)
             ELSE LET i == CHOOSE a \in numeric : \A b \in numeric : a <= b
                  IN  Hit([node EXCEPT !.arguments[i] =
                               Num(addOneToIndexLiteral(node.arguments[i].value))])
    ELSE Pass(node)

\* The visitor of mutator `kind` at `node`, reached under `parent` at `key`
\* (`listKey` when the node is an element of a list), with `outer` the names
\* bound in the scopes around it.
Visit(kind, node, parent, key, listKey, outer) ==
    CASE kind = "homoglyphSabotage"       -> VisitHomoglyphSabotage(node, parent, key)
      [] kind = "scopeGaslighting"        -> VisitScopeGaslighting(node, outer)
      [] kind = "booleanNegation"         -> VisitBooleanNegation(node, parent)
      [] kind = "offByOne"                -> VisitOffByOne(node)
      [] kind = "logicalAndOrSwap"        -> VisitLogicalAndOrSwap(node)
      [] kind = "comparisonDirectionFlip" -> VisitComparisonDirectionFlip(node)
      [] kind = "equalityInequalityFlip"  -> VisitEqualityInequalityFlip(node)
      [] kind = "invertTernaryBranches"   -> VisitInvertTernaryBranches(node)
      [] kind = "wrongArithmeticOperator" -> VisitWrongArithmeticOperator(node)
      [] kind = "bitwiseLogicalSwap"      -> VisitBitwiseLogicalSwap(node)
      [] kind = "indexOffByOne"           -> VisitIndexOffByOne(node)
      [] kind = "generalBoundaryOffByOne" -> VisitGeneralBoundaryOffByOne(node)
      [] kind = "booleanNegation.ext"     -> VisitBooleanNegationExt(node, parent)
      [] kind = "indexOffByOne.ext"       -> VisitIndexOffByOneExt(node)

-----------------------------------------------------------------------------
(* traverse(ast, visitor): depth first, parents before children, children  *)
(* in VisitorKeys order, until a visitor stops it.  The tree is mutated in *)
(* place, so whatever a visitor did to a node stays done whether or not it *)
(* stopped the traversal.                                                  *)

RECURSIVE Traverse(_, _, _, _, _, _), TraverseKeys(_, _, _, _), TraverseList(_, _, _, _, _)
Traverse(kind, node, parent, key, listKey, outer) ==
    LET v == Visit(kind, node, parent, key, listKey, outer)
    IN  IF v.stop THEN v ELSE TraverseKeys(kind, v.node, outer, 1)
TraverseKeys(kind, node, outer, i) ==
    IF i > Len(VisitorKeys(node)) THEN Pass(node)
    ELSE LET k == VisitorKeys(node)[i]
             inner == IF IsScope(node) THEN outer \cup OwnBindings(node) ELSE outer
             r == IF IsListKey(node, k)
                  THEN TraverseList(kind, node, k, inner, 1)
                  ELSE LET c == Traverse(kind, node[k], node, k, "", inner)
                       IN  [stop |-> c.stop, node |-> [node EXCEPT ![k] = c.node]]
         IN  IF r.stop THEN r ELSE TraverseKeys(kind, r.node, outer, i + 1)
TraverseList(kind, node, k, inner, j) ==
    IF j > Len(node[k]) THEN Pass(node)
    ELSE LET c == Traverse(kind, node[k][j], node, "index", k, inner)
             node2 == [node EXCEPT ![k][j] = c.node]
         IN  IF c.stop THEN Hit(node2) ELSE TraverseList(kind, node2, k, inner, j + 1)

\* A mutator: traverse the File's program with the kind's visitor and return
\* didMutate; `ast` is the tree as the call leaves it.
ApplyMutator(kind, tree) ==
    LET r == Traverse(kind, tree, File, "program", "", {})
    IN  [ok |-> r.stop, ast |-> r.node]

\* The `apply` of the mutators entry of one kind (src/unnamed/part_003).
Apply(kind, tree) == ApplyMutator(kind, tree)

applyHomoglyphSabotageBug(tree)       == Apply("homoglyphSabotage", tree)
applyScopeGaslightingBug(tree)        == Apply("scopeGaslighting", tree)
applyBooleanNegationBug(tree)         == Apply("booleanNegation", tree)
applyOffByOneBug(tree)                == Apply("offByOne", tree)
applyLogicalAndOrSwapBug(tree)        == Apply("logicalAndOrSwap", tree)
applyComparisonDirectionFlipBug(tree) == Apply("comparisonDirectionFlip", tree)
applyEqualityInequalityFlipBug(tree)  == Apply("equalityInequalityFlip", tree)
applyInvertTernaryBranchesBug(tree)   == Apply("invertTernaryBranches", tree)
applyWrongArithmeticOperatorBug(tree) == Apply("wrongArithmeticOperator", tree)
applyBitwiseLogicalSwapBug(tree)      == Apply("bitwiseLogicalSwap", tree)
applyIndexOffByOneBug(tree)           == Apply("indexOffByOne", tree)
applyGeneralBoundaryOffByOneBug(tree) == Apply("generalBoundaryOffByOne", tree)

\* The mutators of src/extension.ts: ten kinds, two of them with visitors
\* of their own.
BugKindExt == BugKind \ {"homoglyphSabotage", "scopeGaslighting"}

ApplyExt(kind, tree) ==
    ApplyMutator(IF kind = "booleanNegation" THEN "booleanNegation.ext"
                 ELSE IF kind = "indexOffByOne" THEN "indexOffByOne.ext"
                 ELSE kind, tree)

applyBooleanNegationBugExt(tree) == ApplyExt("booleanNegation", tree)
applyIndexOffByOneBugExt(tree)   == ApplyExt("indexOffByOne", tree)

-----------------------------------------------------------------------------
(* The programs the runs are given                                         *)

MaxStmts == 2      \* statements of a program
MaxCalls == 2      \* direct mutator calls on one tree
MaxBugs  == 2      \* largest maxBugs a run is given

Name_tap  == <<"t", "a", "p">>
Name_go   == <<"g", "o">>
Name_arr  == <<"a", "r", "r">>
Name_at   == <<"a", "t">>
Name_Math == <<"M", "a", "t", "h">>

\* let tap = true;
StmtLet      == VarDecl("let", <<Declarator(Id(Name_tap), Bool(TRUE))>>)
\* function f(n) { tap; while (n) {} }
StmtFuncF    == FuncDecl(Id(<<"f">>), <<Id(<<"n">>)>>,
                         Block(<<ExprStmt(Id(Name_tap)),
                                 WhileStmt(Id(<<"n">>), Block(<<>>))>>))
\* function go() { Math; }
StmtFuncGo   == FuncDecl(Id(Name_go), <<>>, Block(<<ExprStmt(Id(Name_Math))>>))
\* for (; i < n; ) { k ? u : v; }
StmtFor      == ForStmt(Bin("<", Id(<<"i">>), Id(<<"n">>)),
                        Block(<<ExprStmt(Cond(Id(<<"k">>), Id(<<"u">>), Id(<<"v">>)))>>))
\* do {} while (u == v);
StmtDoWhile  == DoWhile(Block(<<>>), Bin("==", Id(<<"u">>), Id(<<"v">>)))
\* k ? u : u;
StmtSameCond == ExprStmt(Cond(Id(<<"k">>), Id(<<"u">>), Id(<<"u">>)))
\* !(u && v);
StmtNotAnd   == ExprStmt(Unary("!", Logical("&&", Id(<<"u">>), Id(<<"v">>))))
\* arr[0] % 2;
StmtIndex    == ExprStmt(Bin("%", Member(Id(Name_arr), Num(0), TRUE), Num(2)))
\* s.at(1) | v;
StmtAtCall   == ExprStmt(Bin("|", Call(Member(Id(<<"s">>), Id(Name_at), FALSE), <<Num(1)>>),
                              Id(<<"v">>)))

Catalogue == <<StmtLet, StmtFuncF, StmtFuncGo, StmtFor, StmtDoWhile, StmtSameCond,
               StmtNotAnd, StmtIndex, StmtAtCall>>

\* Every selection of at most MaxStmts different statements of the catalogue,
\* in catalogue order or in the reverse of it.
StmtLists ==
    UNION {{[j \in 1..len |-> Catalogue[pick[j]]] :
                pick \in {f \in [1..len -> 1..Len(Catalogue)] :
                              \/ \A a, b \in 1..len : a < b => f[a] < f[b]
                              \/ \A a, b \in 1..len : a < b => f[a] > f[b]}}
           : len \in 0..MaxStmts}

Programs == {Program(ss) : ss \in StmtLists}

-----------------------------------------------------------------------------
(* Direct calls of the mutators                                            *)

IdleRule == /\ rAst = Program(<<>>) /\ rPrev = Program(<<>>)
            /\ rKind = "none" /\ rOk = FALSE /\ rCalls = 0

IdleInject == /\ algo = "none" /\ code = "none" /\ maxBugs = 0 /\ ast = Program(<<>>)
              /\ applied = <<>> /\ used = {} /\ pc = "idle" /\ result = "none"
              /\ okRounds = 0 /\ failRounds = 0

NullRange == [null |-> TRUE, startLine |-> 0, endLine |-> 0]

IdleDiff == /\ before = <<>> /\ after = <<>> /\ start = 0 /\ endBefore = 0
            /\ endAfter = 0 /\ range = NullRange /\ beforeSnippet = <<>>
            /\ afterSnippet = <<>> /\ dpc = "idle"

IdleNorm == /\ newCode = <<>> /\ originalCode = <<>> /\ eol = "LF"
            /\ finalCode = <<>> /\ npc = "idle"

IdleCfg == /\ configured = 0 /\ bugsPerRun = 0 /\ cpc = "idle"

IdleTbl == /\ opTable = "none" /\ operator = "none" /\ flipped = <<>> /\ tpc = "idle"

IdleGlue ==
    /\ doc = "none" /\ languageId = "none" /\ activeEditor = FALSE
    /\ autoInjectEnabled = FALSE /\ duckEditing = FALSE /\ pendingRoast = 0
    /\ history = <<>> /\ historyFile = <<>> /\ inv = <<>>

IdleRoast ==
    /\ apiKey = "none" /\ llmEndpoint = "none" /\ bugsApplied = <<>>
    /\ response = "none" /\ fetches = 0 /\ roast = "none" /\ qpc = "idle"

IdleRest == IdleCfg /\ IdleTbl /\ IdleGlue /\ IdleRoast

InitRule ==
    /\ rAst \in Programs
    /\ rPrev = rAst
    /\ rKind = "none"
    /\ rOk = FALSE
    /\ rCalls = 0
    /\ IdleInject
    /\ IdleDiff
    /\ IdleNorm
    /\ IdleRest

CallMutator(kind) ==
    /\ rCalls < MaxCalls
    /\ LET r == Apply(kind, rAst)
       IN  /\ rPrev' = rAst
           /\ rAst' = r.ast
           /\ rOk' = r.ok
    /\ rKind' = kind
    /\ rCalls' = rCalls + 1
    /\ UNCHANGED <<injVars, diffVars, normVars, restVars>>

\* A call of one of the two mutators src/extension.ts defines differently.
CallMutatorExt(kind) ==
    /\ rCalls < MaxCalls
    /\ LET r == ApplyExt(kind, rAst)
       IN  /\ rPrev' = rAst
           /\ rAst' = r.ast
           /\ rOk' = r.ok
    /\ rKind' = IF kind = "booleanNegation" THEN "booleanNegation.ext"
                ELSE "indexOffByOne.ext"
    /\ rCalls' = rCalls + 1
    /\ UNCHANGED <<injVars, diffVars, normVars, restVars>>

NextRule ==
    \/ \E kind \in BugKind : CallMutator(kind)
    \/ \E kind \in {"booleanNegation", "indexOffByOne"} : CallMutatorExt(kind)

SpecRule == InitRule /\ [][NextRule]_vars

-----------------------------------------------------------------------------
(* Source text, parser and printer                                         *)

\* A source text is known by the tree it parses to and by its layout: the
\* user's own, or the one the printer produces.  Printing a tree gives the
\* printer's layout whatever the layout of the text it was parsed from.
Sources == {[tree |-> t, layout |-> l] : t \in Programs, l \in {"user", "printer"}}

parse(text) == text.tree

generate(tree, text) == [tree |-> tree, layout |-> "printer"]

-----------------------------------------------------------------------------
(* The orchestrators                                                       *)

\* A catalog that lacks the invertTernaryBranches entry.
mutatorsWithoutTernary ==
    <<"homoglyphSabotage", "homoglyphSabotage", "homoglyphSabotage", "homoglyphSabotage",
      "homoglyphSabotage",
      "scopeGaslighting", "scopeGaslighting", "scopeGaslighting", "scopeGaslighting",
      "scopeGaslighting",
      "booleanNegation", "offByOne", "logicalAndOrSwap", "comparisonDirectionFlip",
      "equalityInequalityFlip", "wrongArithmeticOperator",
      "bitwiseLogicalSwap", "indexOffByOne", "generalBoundaryOffByOne">>

\* The weighted catalog of injectBugs, by kind, in the order it is written.
mutators ==
    <<"homoglyphSabotage", "homoglyphSabotage", "homoglyphSabotage", "homoglyphSabotage",
      "homoglyphSabotage",
      "scopeGaslighting", "scopeGaslighting", "scopeGaslighting", "scopeGaslighting",
      "scopeGaslighting",
      "booleanNegation", "offByOne", "logicalAndOrSwap", "comparisonDirectionFlip",
      "equalityInequalityFlip", "invertTernaryBranches", "wrongArithmeticOperator",
      "bitwiseLogicalSwap", "indexOffByOne", "generalBoundaryOffByOne">>

\* The catalog of applyManyBugs.
mutatorsExt ==
    <<"booleanNegation", "offByOne", "logicalAndOrSwap", "comparisonDirectionFlip",
      "equalityInequalityFlip", "invertTernaryBranches", "wrongArithmeticOperator",
      "bitwiseLogicalSwap", "indexOffByOne", "generalBoundaryOffByOne">>

\* shuffleInPlace(arr) leaves some permutation of arr, whatever the order of
\* arr before the call.  The orders drawn here are the rotations of arr:
\* every entry comes first in one of them, and any two entries of different
\* kinds come in both orders.
shuffleInPlace(arr) ==
    IF Len(arr) = 0 THEN {arr}
    ELSE {SubSeq(arr, r, Len(arr)) \o SubSeq(arr, 1, r - 1) : r \in 1..Len(arr)}

\* m.apply(ast) for every kind on one tree.  A mutator is a function of the
\* tree it is given, so a round evaluates it once for the tree the round
\* starts with; a call on any other tree is evaluated where it is made.
ApplyTable(tree) ==
    [tree |-> tree, of |-> {[kind |-> k, r |-> Apply(k, tree)] : k \in BugKind}]

ApplyTableExt(tree) ==
    [tree |-> tree, of |-> {[kind |-> k, r |-> ApplyExt(k, tree)] : k \in BugKindExt}]

\* The table's entry for one kind.
Outcome(table, kind) == (CHOOSE e \in table.of : e.kind = kind).r

RECURSIVE InjectScan(_, _, _, _, _)
\* A scan that does not consult `used`.
InjectScanIgnoringUsed(available, i, tree, usedKinds, table) ==
    IF i > Len(available) THEN [didApply |-> FALSE, kind |-> "none", ast |-> tree]
    ELSE CHOOSE out \in
             {IF r.ok THEN [didApply |-> TRUE, kind |-> available[i], ast |-> r.ast]
              ELSE InjectScan(available, i + 1, r.ast, usedKinds, table) :
                  r \in {Apply(available[i], tree)}} : TRUE

\* A scan that ends at the first entry of a used kind (break for continue).
InjectScanStoppingAtUsed(available, i, tree, usedKinds, table) ==
    IF i > Len(available) THEN [didApply |-> FALSE, kind |-> "none", ast |-> tree]
    ELSE IF available[i] \in usedKinds
    THEN [didApply |-> FALSE, kind |-> "none", ast |-> tree]
    ELSE CHOOSE out \in
             {IF r.ok THEN [didApply |-> TRUE, kind |-> available[i], ast |-> r.ast]
              ELSE InjectScan(available, i + 1, r.ast, usedKinds, table) :
                  r \in {Apply(available[i], tree)}} : TRUE

\* injectBugs' `for (const m of available)`: the first entry of an unused kind
\* whose apply returns true ends the scan; the tree is handed from call to call.
\* (r ranges over a one-element set so that the call's outcome is computed once.)
InjectScan(available, i, tree, usedKinds, table) ==
    IF i > Len(available) THEN [didApply |-> FALSE, kind |-> "none", ast |-> tree]
    ELSE IF available[i] \in usedKinds
    THEN InjectScan(available, i + 1, tree, usedKinds, table)
    ELSE CHOOSE out \in
             {IF r.ok THEN [didApply |-> TRUE, kind |-> available[i], ast |-> r.ast]
              ELSE InjectScan(available, i + 1, r.ast, usedKinds, table) :
                  r \in {IF tree = table.tree THEN Outcome(table, available[i])
                         ELSE Apply(available[i], tree)}} : TRUE

RECURSIVE ManyScan(_, _, _, _, _, _)
\* applyManyBugs' `for (const m of remaining)`.
ManyScan(remaining, i, tree, nApplied, limit, table) ==
    IF i > Len(remaining) THEN [didApply |-> FALSE, kind |-> "none", ast |-> tree]
    ELSE IF nApplied >= limit THEN [didApply |-> FALSE, kind |-> "none", ast |-> tree]
    ELSE CHOOSE out \in
             {IF r.ok THEN [didApply |-> TRUE, kind |-> remaining[i], ast |-> r.ast]
              ELSE ManyScan(remaining, i + 1, r.ast, nApplied, limit, table) :
                  r \in {IF tree = table.tree THEN Outcome(table, remaining[i])
                         ELSE ApplyExt(remaining[i], tree)}} : TRUE

\* applyManyBugs is handed the tree, not the text: its runs take one layout.
InitInject ==
    /\ algo \in {"injectBugs", "applyManyBugs"}
    /\ code \in Sources
    /\ algo = "applyManyBugs" => code.layout = "user"
    /\ maxBugs \in 0..MaxBugs
    /\ ast = parse(code)
    /\ applied = <<>>
    /\ used = {}
    /\ pc = "loop"
    /\ result = "none"
    /\ okRounds = 0
    /\ failRounds = 0
    /\ IdleRule
    /\ IdleDiff
    /\ IdleNorm
    /\ IdleRest

\* A round that goes back to the loop test when no rule succeeded.
EndRoundWithoutBreak(r) ==
    /\ ast' = r.ast
    /\ pc' = "loop"
    /\ IF r.didApply
       THEN /\ applied' = Append(applied, r.kind)
            /\ used' = used \cup {r.kind}
            /\ okRounds' = okRounds + 1
            /\ UNCHANGED failRounds
       ELSE /\ failRounds' = failRounds + 1
            /\ UNCHANGED <<applied, used, okRounds>>

\* What one round of either while loop leaves behind.
EndRound(r) ==
    /\ ast' = r.ast
    /\ IF r.didApply
       THEN /\ applied' = Append(applied, r.kind)
            /\ used' = used \cup {r.kind}
            /\ okRounds' = okRounds + 1
            /\ pc' = "loop"
            /\ UNCHANGED failRounds
       ELSE /\ failRounds' = failRounds + 1
            /\ pc' = "break"
            /\ UNCHANGED <<applied, used, okRounds>>

\* One round of injectBugs' while loop.
InjectRound ==
    /\ algo = "injectBugs"
    /\ pc = "loop"
    /\ Len(applied) < maxBugs
    /\ \E table \in {ApplyTable(ast)} :
           \E available \in shuffleInPlace(mutators) :
               EndRound(InjectScan(available, 1, ast, used, table))
    /\ UNCHANGED <<algo, code, maxBugs, result, ruleVars, diffVars, normVars, restVars>>

\* One round of applyManyBugs' while loop.
ManyRound ==
    /\ algo = "applyManyBugs"
    /\ pc = "loop"
    /\ Len(applied) < maxBugs
    /\ \E remaining \in {SelectSeq(mutatorsExt, LAMBDA m : m \notin used)} :
           IF Len(remaining) = 0
           THEN /\ pc' = "break"
                /\ UNCHANGED <<ast, applied, used, okRounds, failRounds>>
           ELSE \E table \in {ApplyTableExt(ast)} :
                    \E shuffled \in shuffleInPlace(remaining) :
                        EndRound(ManyScan(shuffled, 1, ast, Len(applied), maxBugs, table))
    /\ UNCHANGED <<algo, code, maxBugs, result, ruleVars, diffVars, normVars, restVars>>

\* A return that regenerates the text whatever was applied.
injectReturnRegenerating(text, tree, kinds) ==
    [code |-> generate(tree, text), applied |-> kinds]

\* What injectBugs returns once its loop has ended.
injectReturn(text, tree, kinds) ==
    IF Len(kinds) = 0 THEN [code |-> text, applied |-> <<>>]
    ELSE [code |-> generate(tree, text), applied |-> kinds]

\* The loop has ended (its test failed or it broke out): return.
InjectReturn ==
    /\ algo = "injectBugs"
    /\ pc = "break" \/ (pc = "loop" /\ ~(Len(applied) < maxBugs))
    /\ result' = injectReturn(code, ast, applied)
    /\ pc' = "done"
    /\ UNCHANGED <<algo, code, maxBugs, ast, applied, used, okRounds, failRounds, ruleVars, diffVars, normVars, restVars>>

ManyReturn ==
    /\ algo = "applyManyBugs"
    /\ pc = "break" \/ (pc = "loop" /\ ~(Len(applied) < maxBugs))
    /\ result' = [applied |-> applied]
    /\ pc' = "done"
    /\ UNCHANGED <<algo, code, maxBugs, ast, applied, used, okRounds, failRounds, ruleVars, diffVars, normVars, restVars>>

NextInject == InjectRound \/ InjectReturn \/ ManyRound \/ ManyReturn

SpecInject == InitInject /\ [][NextInject]_vars

-----------------------------------------------------------------------------
(* Texts                                                                   *)

\* A text is a sequence of characters (one-character strings); position p of a
\* JavaScript string is element p + 1 of the sequence.
MaxLen == 3        \* characters of a text

TextsOver(chars) == UNION {[1..n -> chars] : n \in 0..MaxLen}

\* String.prototype.slice(from, to) for 0 <= from and 0 <= to.
Slice(text, from, to) == SubSeq(text, from + 1, Min(to, Len(text)))

RECURSIVE Split(_)
\* text.split("\n"): the lines of a text; the empty text has one (empty) line.
Split(text) ==
    IF \A i \in 1..Len(text) : text[i] # "\n" THEN <<text>>
    ELSE LET i == CHOOSE j \in 1..Len(text) :
                      text[j] = "\n" /\ \A k \in 1..(j - 1) : text[k] # "\n"
         IN  <<SubSeq(text, 1, i - 1)>> \o Split(SubSeq(text, i + 1, Len(text)))

RECURSIVE Join(_)
\* lines.join("\n")
Join(lines) ==
    IF Len(lines) = 0 THEN <<>>
    ELSE IF Len(lines) = 1 THEN lines[1]
    ELSE lines[1] \o <<"\n">> \o Join(Tail(lines))

-----------------------------------------------------------------------------
(* recordDuckHistory's diff: getChangedLineRange and getLineSlice          *)

DiffChars == {"a", "b", "\n"}

getLineSlice(text, startLine, endLine) ==
    LET lines == Split(text)
        from  == Max(0, startLine - 1)
        to    == Min(Len(lines), endLine)
    IN  Join(Slice(lines, from, to))

InitDiff ==
    /\ before \in TextsOver(DiffChars)
    /\ after \in TextsOver(DiffChars)
    /\ start = 0
    /\ endBefore = 0
    /\ endAfter = 0
    /\ range = NullRange
    /\ beforeSnippet = <<>>
    /\ afterSnippet = <<>>
    /\ dpc = "call"
    /\ IdleInject
    /\ IdleRule
    /\ IdleNorm
    /\ IdleRest

\* An entry that compares the lengths of the two texts only.
DiffCallComparingLengths ==
    /\ dpc = "call"
    /\ IF Len(before) = Len(after)
       THEN /\ range' = NullRange
            /\ dpc' = "done"
       ELSE /\ dpc' = "forward"
            /\ UNCHANGED range
    /\ start' = 0
    /\ UNCHANGED <<before, after, endBefore, endAfter, beforeSnippet, afterSnippet>>
    /\ UNCHANGED <<injVars, ruleVars, normVars, restVars>>

\* getChangedLineRange is entered: `if (before === after) return null`, and
\* recordDuckHistory returns on a null range.
DiffCall ==
    /\ dpc = "call"
    /\ IF before = after
       THEN /\ range' = NullRange
            /\ dpc' = "done"
       ELSE /\ dpc' = "forward"
            /\ UNCHANGED range
    /\ start' = 0
    /\ UNCHANGED <<before, after, endBefore, endAfter, beforeSnippet, afterSnippet>>
    /\ UNCHANGED <<injVars, ruleVars, normVars, restVars>>

\* One test of the first while loop.
ForwardStep ==
    /\ dpc = "forward"
    /\ IF /\ start < Len(before)
          /\ start < Len(after)
          /\ before[start + 1] = after[start + 1]
       THEN /\ start' = start + 1
            /\ UNCHANGED <<endBefore, endAfter, dpc>>
       ELSE /\ endBefore' = Len(before) - 1
            /\ endAfter' = Len(after) - 1
            /\ dpc' = "backward"
            /\ UNCHANGED start
    /\ UNCHANGED <<before, after, range, beforeSnippet, afterSnippet>>
    /\ UNCHANGED <<injVars, ruleVars, normVars, restVars>>

\* A backward scan bounded by the start of the texts, not by `start`.
BackwardStepUnbounded ==
    /\ dpc = "backward"
    /\ IF /\ endBefore >= 0
          /\ endAfter >= 0
          /\ before[endBefore + 1] = after[endAfter + 1]
       THEN /\ endBefore' = endBefore - 1
            /\ endAfter' = endAfter - 1
            /\ UNCHANGED <<range, dpc>>
       ELSE /\ range' = [null      |-> FALSE,
                         startLine |-> Len(Split(Slice(before, 0, start))),
                         endLine   |-> Len(Split(Slice(before, 0, endBefore + 1)))]
            /\ dpc' = "slice"
            /\ UNCHANGED <<endBefore, endAfter>>
    /\ UNCHANGED <<before, after, start, beforeSnippet, afterSnippet>>
    /\ UNCHANGED <<injVars, ruleVars, normVars, restVars>>

\* One test of the second while loop; when it fails the range is returned.
BackwardStep ==
    /\ dpc = "backward"
    /\ IF /\ endBefore >= start
          /\ endAfter >= start
          /\ before[endBefore + 1] = after[endAfter + 1]
       THEN /\ endBefore' = endBefore - 1
            /\ endAfter' = endAfter - 1
            /\ UNCHANGED <<range, dpc>>
       ELSE /\ range' = [null      |-> FALSE,
                         startLine |-> Len(Split(Slice(before, 0, start))),
                         endLine   |-> Len(Split(Slice(before, 0, endBefore + 1)))]
            /\ dpc' = "slice"
            /\ UNCHANGED <<endBefore, endAfter>>
    /\ UNCHANGED <<before, after, start, beforeSnippet, afterSnippet>>
    /\ UNCHANGED <<injVars, ruleVars, normVars, restVars>>

\* recordDuckHistory takes the two snippets at the range.
TakeSnippets ==
    /\ dpc = "slice"
    /\ beforeSnippet' = getLineSlice(before, range.startLine, range.endLine)
    /\ afterSnippet' = getLineSlice(after, range.startLine, range.endLine)
    /\ dpc' = "done"
    /\ UNCHANGED <<before, after, start, endBefore, endAfter, range>>
    /\ UNCHANGED <<injVars, ruleVars, normVars, restVars>>

NextDiff == DiffCall \/ ForwardStep \/ BackwardStep \/ TakeSnippets

SpecDiff == InitDiff /\ [][NextDiff]_vars

-----------------------------------------------------------------------------
(* The normalization step                                                  *)

NormChars == {"a", "\r", "\n"}

Newline(e) == IF e = "CRLF" THEN <<"\r", "\n">> ELSE <<"\n">>

RECURSIVE replaceAllEol(_, _, _)
\* text.replace(/\r?\n/g, newline), from position i on: matches are taken
\* left to right, "\r\n" as one match.
replaceAllEol(text, i, newline) ==
    IF i > Len(text) THEN <<>>
    ELSE IF text[i] = "\r" /\ i < Len(text) /\ text[i + 1] = "\n"
    THEN newline \o replaceAllEol(text, i + 2, newline)
    ELSE IF text[i] = "\n"
    THEN newline \o replaceAllEol(text, i + 1, newline)
    ELSE <<text[i]>> \o replaceAllEol(text, i + 1, newline)

\* /\r?\n$/.test(text)
hasTrailingEol(text) == Len(text) >= 1 /\ text[Len(text)] = "\n"

\* text.replace(/\r?\n$/, ""): the leftmost match is removed.
stripTrailingEol(text) ==
    IF Len(text) >= 2 /\ text[Len(text) - 1] = "\r" /\ text[Len(text)] = "\n"
    THEN SubSeq(text, 1, Len(text) - 2)
    ELSE IF Len(text) >= 1 /\ text[Len(text)] = "\n"
    THEN SubSeq(text, 1, Len(text) - 1)
    ELSE text

normalizeAndPreserveFormatting(new, original, e) ==
    LET newline             == Newline(e)
        normalized          == replaceAllEol(new, 1, newline)
        originalHasTrailing == hasTrailingEol(original)
        outputHasTrailing   == hasTrailingEol(normalized)
    IN  IF originalHasTrailing /\ ~outputHasTrailing THEN normalized \o newline
        ELSE IF ~originalHasTrailing /\ outputHasTrailing
        THEN stripTrailingEol(normalized)
        ELSE normalized

normalizeEol(text, e) == replaceAllEol(text, 1, Newline(e))

preserveTrailingNewline(output, original) ==
    LET originalHasTrailingNewline == hasTrailingEol(original)
        outputHasTrailingNewline   == hasTrailingEol(output)
    IN  IF originalHasTrailingNewline /\ ~outputHasTrailingNewline
        THEN output \o <<"\n">>
        ELSE IF ~originalHasTrailingNewline /\ outputHasTrailingNewline
        THEN stripTrailingEol(output)
        ELSE output

InitNorm ==
    /\ newCode \in TextsOver(NormChars)
    /\ originalCode \in TextsOver(NormChars)
    /\ eol \in {"LF", "CRLF"}
    /\ finalCode = <<>>
    /\ npc = "call"
    /\ IdleInject
    /\ IdleRule
    /\ IdleDiff
    /\ IdleRest

\* src/unnamed/part_001: finalCode = normalizeAndPreserveFormatting(...)
NormalizeAndPreserve ==
    /\ npc = "call"
    /\ finalCode' = normalizeAndPreserveFormatting(newCode, originalCode, eol)
    /\ npc' = "done"
    /\ UNCHANGED <<newCode, originalCode, eol>>
    /\ UNCHANGED <<injVars, ruleVars, diffVars, restVars>>

\* src/src/extension.ts: output = preserveTrailingNewline(normalizeEol(...), code)
NormalizeThenPreserve ==
    /\ npc = "call"
    /\ finalCode' = preserveTrailingNewline(normalizeEol(newCode, eol), originalCode)
    /\ npc' = "done.ext"
    /\ UNCHANGED <<newCode, originalCode, eol>>
    /\ UNCHANGED <<injVars, ruleVars, diffVars, restVars>>

NextNorm == NormalizeAndPreserve \/ NormalizeThenPreserve

SpecNorm == InitNorm /\ [][NextNorm]_vars

-----------------------------------------------------------------------------
(* The configured number of bugs per manual run (SpecConfig).  The setting  *)
(* is read as a number; the model draws it from the integers of a bounded   *)
(* range around the clamp's two limits.                                     *)

MaxConfigured == 20

\* part_001: Math.max(1, Math.min(10, n || 3)); n || 3 is 3 when n is 0.
getBugsPerRun(n) == Max(1, Min(10, IF n = 0 THEN 3 ELSE n))

\* extension.ts: n = Number.isFinite(configured) ? Math.floor(configured) : 3,
\* then Math.max(1, Math.min(10, n)); an integer is finite and its own floor.
getBugsPerRunExt(n) == Max(1, Min(10, n))

InitConfig ==
    /\ configured \in (0 - MaxConfigured)..MaxConfigured
    /\ bugsPerRun = 0
    /\ cpc = "call"
    /\ IdleInject
    /\ IdleRule
    /\ IdleDiff
    /\ IdleNorm
    /\ IdleTbl
    /\ IdleGlue
    /\ IdleRoast

GetBugsPerRun ==
    /\ cpc = "call"
    /\ bugsPerRun' = getBugsPerRun(configured)
    /\ cpc' = "done"
    /\ UNCHANGED <<configured, injVars, ruleVars, diffVars, normVars, tblVars, glueVars, roastVars>>

GetBugsPerRunExt ==
    /\ cpc = "call"
    /\ bugsPerRun' = getBugsPerRunExt(configured)
    /\ cpc' = "done.ext"
    /\ UNCHANGED <<configured, injVars, ruleVars, diffVars, normVars, tblVars, glueVars, roastVars>>

NextConfig == GetBugsPerRun \/ GetBugsPerRunExt

SpecConfig == InitConfig /\ [][NextConfig]_vars

-----------------------------------------------------------------------------
(* The operator tables called on their own (SpecTables): a table is called  *)
(* on a binary operator and then again on each defined result.              *)

MaxFlips == 2

\* @babel/types BINARY_OPERATORS: what a BinaryExpression's operator can be.
BinaryOperators ==
    {"+", "-", "/", "%", "*", "**", "&", "|", ">>", ">>>", "<<", "^",
     "==", "===", "!=", "!==", "in", "instanceof", ">", "<", ">=", "<=", "|>"}

\* extension.ts, switch with default: return undefined
flipBoundaryOperator(op) ==
    CASE op = "<" -> "<=" [] op = "<=" -> "<" [] op = ">" -> ">=" [] op = ">=" -> ">"
      [] OTHER -> "undefined"

flipComparisonDirectionOperator(op) ==
    CASE op = ">" -> "<" [] op = "<" -> ">" [] op = ">=" -> "<=" [] op = "<=" -> ">="
      [] OTHER -> "undefined"

flipEqualityInequalityOperator(op) ==
    CASE op = "==" -> "!==" [] op = "!=" -> "===" [] op = "===" -> "!==" [] op = "!==" -> "==="
      [] OTHER -> "undefined"

OperatorTables ==
    {"flip", "flipBoundaryOperator",
     "comparisonDirectionMap", "flipComparisonDirectionOperator",
     "equalityInequalityMap", "flipEqualityInequalityOperator"}

TableLookup(t, op) ==
    CASE t = "flip"                            -> flipBoundary(op)
      [] t = "flipBoundaryOperator"            -> flipBoundaryOperator(op)
      [] t = "comparisonDirectionMap"          -> comparisonDirectionMap(op)
      [] t = "flipComparisonDirectionOperator" -> flipComparisonDirectionOperator(op)
      [] t = "equalityInequalityMap"           -> equalityInequalityMap(op)
      [] t = "flipEqualityInequalityOperator"  -> flipEqualityInequalityOperator(op)

InitTables ==
    /\ opTable \in OperatorTables
    /\ operator \in BinaryOperators
    /\ flipped = <<>>
    /\ tpc = "call"
    /\ IdleInject
    /\ IdleRule
    /\ IdleDiff
    /\ IdleNorm
    /\ IdleCfg
    /\ IdleGlue
    /\ IdleRoast

\* One call of the table: on the operator first, then on the last result.
TableCall ==
    /\ tpc = "call"
    /\ \E next \in {TableLookup(opTable, IF flipped = <<>> THEN operator
                                                          ELSE flipped[Len(flipped)])} :
          /\ flipped' = Append(flipped, next)
          /\ tpc' = IF next = "undefined" \/ Len(flipped) + 1 >= MaxFlips
                    THEN "done" ELSE "call"
    /\ UNCHANGED <<opTable, operator, injVars, ruleVars, diffVars, normVars, cfgVars, glueVars, roastVars>>

NextTables == TableCall

SpecTables == InitTables /\ [][NextTables]_vars

-----------------------------------------------------------------------------
(* The extension around the injector (SpecGlue): the manual command, the    *)
(* save listener, the debug listener and the two small commands of          *)
(* part_001, each handler cut at its awaits.  A text is one of a few        *)
(* abstract texts; what the injector and the normalization return for a     *)
(* text is drawn from the outcomes their code allows.  One document is      *)
(* open; the save listener's tests of the file name and of the editor's     *)
(* uri are part of activeEditor.                                            *)

MaxInvocations == 2
MaxSetting     == 1
MaxApplied     == 2

HistoryLimit == 50

ParsableTexts == {"t1", "t2"}
GlueTexts     == ParsableTexts \cup {"unparsable"}

JsLanguages == {"javascript", "typescript", "javascriptreact", "typescriptreact"}

\* The maxBugs the save listener passes: the literal of `injectBugs(before, 1)`.
SaveBugCounts == {1}

\* injectBugs(code, maxBugs) as the handlers see it: parse throws on a text
\* that does not parse; otherwise at most maxBugs rules are applied, and with
\* none applied the text comes back as it was.
injectBugsOutcomes(text, maxBugsArg) ==
    IF text \notin ParsableTexts
    THEN {[threw |-> TRUE, code |-> text, applied |-> 0]}
    ELSE {[threw |-> FALSE, code |-> c, applied |-> k] :
              c \in ParsableTexts, k \in 0..Min(maxBugsArg, MaxApplied)}
         \ {o \in [threw : {FALSE}, code : ParsableTexts, applied : {0}] : o.code # text}

\* normalizeAndPreserveFormatting rewrites line breaks only: the text it
\* returns may or may not be the regenerated one, or the original.
normalizeOutcomes(newText, originalText) == ParsableTexts

\* The locals of a handler invocation that has not got anywhere yet.
NewInvocation(path) ==
    [path       |-> path,       \* "manual", "save"
     pc         |-> "done",     \* "edit", "update", "read", "write", "roast", "done"
     returnedAt |-> "none",     \* the test at which the handler returned early
     before     |-> "none",     \* the text read from the document
     requested  |-> 0,          \* maxBugs as passed to injectBugs
     threw      |-> "none",     \* "parse", "edit": what the catch block caught
     applied    |-> 0,          \* result.applied.length
     finalCode  |-> "none",     \* the text handed to the edit
     edit       |-> "none",     \* "pending", "applied", "rejected", "threw"
     historyCalled |-> FALSE,   \* recordDuckHistory was called
     stored     |-> FALSE,      \* an entry went into globalState
     existing   |-> <<>>,       \* what readFile returned
     roast      |-> "none",     \* "requested", "resolved"
     message    |-> "none"]     \* what the handler showed to the user

\* A variant of the command's catch block that shows nothing.
commandCatchSilent(rec, what) ==
    [rec EXCEPT !.threw = what, !.pc = "done"]

\* catch (err) { showErrorMessage(`Duck failed: ${err}`) }
commandCatch(rec, what) ==
    [rec EXCEPT !.threw = what, !.pc = "done", !.message = "Duck failed"]

\* catch (err) { duckEditing = false; console.error(...) }; the flag is set
\* by the action.
saveCatch(rec, what) ==
    [rec EXCEPT !.threw = what, !.pc = "done"]

InitGlue ==
    /\ doc \in GlueTexts
    /\ languageId \in {"javascript", "plaintext"}
    /\ activeEditor \in BOOLEAN
    /\ autoInjectEnabled = FALSE
    /\ duckEditing = FALSE
    /\ pendingRoast = 0
    /\ history = <<>>
    /\ historyFile = <<>>
    /\ inv = <<>>
    /\ IdleInject
    /\ IdleRule
    /\ IdleDiff
    /\ IdleNorm
    /\ IdleCfg
    /\ IdleTbl
    /\ IdleRoast

GlueFrame == UNCHANGED <<injVars, ruleVars, diffVars, normVars, cfgVars, tblVars, roastVars>>

\* duckedyduck.toggleAutoInject
ToggleAutoInject ==
    /\ autoInjectEnabled' = ~autoInjectEnabled
    /\ UNCHANGED <<doc, languageId, activeEditor, duckEditing, pendingRoast,
                   history, historyFile, inv>>
    /\ GlueFrame

\* duckedyduck.clearHistory
ClearHistory ==
    /\ history # <<>>
    /\ history' = <<>>
    /\ UNCHANGED <<doc, languageId, activeEditor, autoInjectEnabled, duckEditing,
                   pendingRoast, historyFile, inv>>
    /\ GlueFrame

\* The user types: the document holds another text.
UserTypes ==
    /\ \E text \in GlueTexts \ {doc} : doc' = text
    /\ UNCHANGED <<languageId, activeEditor, autoInjectEnabled, duckEditing,
                   pendingRoast, history, historyFile, inv>>
    /\ GlueFrame

\* onDidStartDebugSession
DebugSessionStarts ==
    /\ pendingRoast # 0
    /\ pendingRoast' = 0
    /\ UNCHANGED <<doc, languageId, activeEditor, autoInjectEnabled, duckEditing,
                   history, historyFile, inv>>
    /\ GlueFrame

\* duckedyduck.injectBug, up to its first await.
InjectBugCommand ==
    /\ Len(inv) < MaxInvocations
    /\ IF ~activeEditor
       THEN inv' = Append(inv, [NewInvocation("manual") EXCEPT
                                    !.returnedAt = "editor",
                                    !.message = "No active editor found."])
       ELSE \E setting \in 0..MaxSetting :
            \E r \in injectBugsOutcomes(doc, getBugsPerRun(setting)) :
            \E final \in normalizeOutcomes(r.code, doc) :
                LET rec == [NewInvocation("manual") EXCEPT
                                !.before = doc, !.requested = getBugsPerRun(setting)]
                IN  inv' = Append(inv,
                        IF r.threw THEN commandCatch(rec, "parse")
                        ELSE IF r.applied = 0
                        THEN [rec EXCEPT !.returnedAt = "applied",
                                         !.message = "Duck could not find anything to break."]
                        ELSE [rec EXCEPT !.applied = r.applied, !.finalCode = final,
                                         !.edit = "pending", !.pc = "edit"])
    /\ UNCHANGED <<doc, languageId, activeEditor, autoInjectEnabled, duckEditing,
                   pendingRoast, history, historyFile>>
    /\ GlueFrame

\* onDidSaveTextDocument, up to its first await.
SaveDocument ==
    /\ Len(inv) < MaxInvocations
    /\ pendingRoast' = IF pendingRoast # 0 /\ activeEditor THEN 0 ELSE pendingRoast
    /\ LET rec == NewInvocation("save") IN
       IF ~autoInjectEnabled
       THEN /\ inv' = Append(inv, [rec EXCEPT !.returnedAt = "autoInjectEnabled"])
            /\ UNCHANGED duckEditing
       ELSE IF duckEditing
       THEN /\ inv' = Append(inv, [rec EXCEPT !.returnedAt = "duckEditing"])
            /\ UNCHANGED duckEditing
       ELSE IF languageId \notin JsLanguages
       THEN /\ inv' = Append(inv, [rec EXCEPT !.returnedAt = "languageId"])
            /\ UNCHANGED duckEditing
       ELSE IF ~activeEditor
       THEN /\ inv' = Append(inv, [rec EXCEPT !.returnedAt = "editor"])
            /\ UNCHANGED duckEditing
       ELSE \E n \in SaveBugCounts :
            \E r \in injectBugsOutcomes(doc, n) :
            \E final \in normalizeOutcomes(r.code, doc) :
                LET read == [rec EXCEPT !.before = doc, !.requested = n] IN
                IF r.threw
                THEN /\ inv' = Append(inv, saveCatch(read, "parse"))
                     /\ duckEditing' = FALSE
                ELSE IF r.applied = 0
                THEN /\ inv' = Append(inv, [read EXCEPT !.returnedAt = "applied"])
                     /\ UNCHANGED duckEditing
                ELSE IF final = doc
                THEN /\ inv' = Append(inv, [read EXCEPT !.applied = r.applied,
                                                        !.finalCode = final,
                                                        !.returnedAt = "same"])
                     /\ UNCHANGED duckEditing
                ELSE /\ inv' = Append(inv, [read EXCEPT !.applied = r.applied,
                                                        !.finalCode = final,
                                                        !.edit = "pending", !.pc = "edit"])
                     /\ duckEditing' = TRUE
    /\ UNCHANGED <<doc, languageId, activeEditor, autoInjectEnabled,
                   history, historyFile>>
    /\ GlueFrame

\* A variant that records as after the text the document held when the
\* edit settled.
historyWithDocumentText(rec, i) ==
    IF rec.before = rec.finalCode THEN history
    ELSE LET longer == <<[by |-> i, before |-> rec.before, after |-> doc,
                           bugs |-> rec.applied]>> \o history
         IN  SubSeq(longer, 1, Min(HistoryLimit, Len(longer)))

\* recordDuckHistory(before, after, bugs) up to its first await: nothing for
\* two equal texts (getChangedLineRange gives null), else the entry goes to
\* the front of the stored list.
historyWith(rec, i) ==
    IF rec.before = rec.finalCode THEN history
    ELSE LET longer == <<[by |-> i, before |-> rec.before, after |-> rec.finalCode,
                           bugs |-> rec.applied]>> \o history
         IN  SubSeq(longer, 1, Min(HistoryLimit, Len(longer)))

\* getDuckRoast(result.applied) is called and the handler is through.
roastRequested(rec) == [rec EXCEPT !.roast = "requested", !.pc = "roast"]

\* A variant in which the handler, once its edit has resolved, stops without
\* touching duckEditing.
EditSettlesKeepingFlag(i) ==
    /\ inv[i].pc = "edit"
    /\ inv' = [inv EXCEPT ![i].edit = "applied", ![i].pc = "done"]
    /\ doc' = inv[i].finalCode
    /\ UNCHANGED <<languageId, activeEditor, autoInjectEnabled, duckEditing,
                   pendingRoast, history, historyFile>>
    /\ GlueFrame

\* editor.edit of invocation i settles: it resolves true (the text is
\* replaced), resolves false (it is not) or rejects.  The handler goes on to
\* recordDuckHistory, or to its catch block.
EditSettles(i) ==
    /\ inv[i].pc = "edit"
    /\ \E outcome \in {"applied", "rejected", "threw"} :
        LET rec == [inv[i] EXCEPT !.edit = outcome] IN
        /\ doc' = IF outcome = "applied" THEN rec.finalCode ELSE doc
        /\ duckEditing' = IF rec.path = "save" THEN FALSE ELSE duckEditing
        /\ IF outcome = "threw"
           THEN /\ inv' = [inv EXCEPT ![i] = IF rec.path = "manual"
                                             THEN commandCatch(rec, "edit")
                                             ELSE saveCatch(rec, "edit")]
                /\ UNCHANGED history
           ELSE /\ history' = historyWith(rec, i)
                /\ inv' = [inv EXCEPT ![i] =
                              IF rec.before = rec.finalCode
                              THEN roastRequested([rec EXCEPT !.historyCalled = TRUE])
                              ELSE [rec EXCEPT !.historyCalled = TRUE, !.stored = TRUE,
                                               !.pc = "update"]]
    /\ UNCHANGED <<languageId, activeEditor, autoInjectEnabled, pendingRoast, historyFile>>
    /\ GlueFrame

\* globalState.update and createDirectory of invocation i have resolved
\* (nothing shared is read or written between them); readFile is under way.
UpdateSettles(i) ==
    /\ inv[i].pc = "update"
    /\ inv' = [inv EXCEPT ![i].pc = "read"]
    /\ UNCHANGED <<doc, languageId, activeEditor, autoInjectEnabled, duckEditing,
                   pendingRoast, history, historyFile>>
    /\ GlueFrame

\* readFile of invocation i settles (a missing file reads as empty);
\* writeFile(existing + block) is under way.
ReadSettles(i) ==
    /\ inv[i].pc = "read"
    /\ inv' = [inv EXCEPT ![i].existing = historyFile, ![i].pc = "write"]
    /\ UNCHANGED <<doc, languageId, activeEditor, autoInjectEnabled, duckEditing,
                   pendingRoast, history, historyFile>>
    /\ GlueFrame

\* writeFile of invocation i resolves; recordDuckHistory is through and the
\* handler asks for a roast.
WriteSettles(i) ==
    /\ inv[i].pc = "write"
    /\ historyFile' = Append(inv[i].existing, i)
    /\ inv' = [inv EXCEPT ![i] = roastRequested(inv[i])]
    /\ UNCHANGED <<doc, languageId, activeEditor, autoInjectEnabled, duckEditing,
                   pendingRoast, history>>
    /\ GlueFrame

\* getDuckRoast of invocation i resolves: pendingRoast = roast.
RoastSettles(i) ==
    /\ inv[i].pc = "roast"
    /\ pendingRoast' = i
    /\ inv' = [inv EXCEPT ![i].roast = "resolved", ![i].pc = "done"]
    /\ UNCHANGED <<doc, languageId, activeEditor, autoInjectEnabled, duckEditing,
                   history, historyFile>>
    /\ GlueFrame

NextGlue ==
    \/ ToggleAutoInject
    \/ ClearHistory
    \/ UserTypes
    \/ DebugSessionStarts
    \/ InjectBugCommand
    \/ SaveDocument
    \/ \E i \in 1..Len(inv) : EditSettles(i)
    \/ \E i \in 1..Len(inv) : UpdateSettles(i)
    \/ \E i \in 1..Len(inv) : ReadSettles(i)
    \/ \E i \in 1..Len(inv) : WriteSettles(i)
    \/ \E i \in 1..Len(inv) : RoastSettles(i)

SpecGlue == InitGlue /\ [][NextGlue]_vars

-----------------------------------------------------------------------------
(* getDuckRoast (roaster.ts)                                               *)

\* JavaScript values, as far as a configuration entry or a parsed response
\* body can hold them.  Strings are sequences of one-character strings.
Undefined == [t |-> "undefined"]
Null      == [t |-> "null"]
Str(s)    == [t |-> "string", s |-> s]
JsNumber(n)  == [t |-> "number", n |-> n]
JsBoolean(b) == [t |-> "boolean", b |-> b]
Obj(f)    == [t |-> "object", fields |-> f]
Arr(xs)   == [t |-> "array", items |-> xs]

\* The evaluation of an expression threw a TypeError.
Thrown == [t |-> "thrown"]

\* v.key
GetMember(v, key) ==
    IF v.t \in {"undefined", "null", "thrown"} THEN Thrown
    ELSE IF v.t = "object" /\ key \in DOMAIN v.fields THEN v.fields[key]
    ELSE Undefined

\* v?.key
OptGetMember(v, key) ==
    IF v.t \in {"undefined", "null"} THEN Undefined ELSE GetMember(v, key)

\* v[k]
GetIndex(v, k) ==
    IF v.t \in {"undefined", "null", "thrown"} THEN Thrown
    ELSE IF v.t = "array" /\ k < Len(v.items) THEN v.items[k + 1]
    ELSE IF v.t = "string" /\ k < Len(v.s) THEN Str(<<v.s[k + 1]>>)
    ELSE Undefined

\* ToBoolean(v)
Truthy(v) ==
    CASE v.t \in {"undefined", "null"} -> FALSE
      [] v.t = "string"  -> v.s # <<>>
      [] v.t = "number"  -> v.n # 0
      [] v.t = "boolean" -> v.b
      [] OTHER -> TRUE

\* a || b
Or(a, b) == IF Truthy(a) THEN a ELSE b

\* s.includes(sub)
Includes(s, sub) ==
    \E k \in 0..(Len(s) - Len(sub)) : SubSeq(s, k + 1, k + Len(sub)) = sub

DefaultEndpoint ==
    <<"h", "t", "t", "p", "s", ":", "/", "/", "a", "p", "i", ".", "o", "p",
      "e", "n", "a", "i", ".", "c", "o", "m", "/", "v", "1", "/", "c", "h",
      "a", "t", "/", "c", "o", "m", "p", "l", "e", "t", "i", "o", "n", "s">>

Localhost == <<"l", "o", "c", "a", "l", "h", "o", "s", "t">>

RefusingMessage ==
    <<"I", " ", "b", "r", "o", "k", "e", " ", "y", "o", "u", "r", " ", "c",
      "o", "d", "e", ",", " ", "a", "n", "d", " ", "I", "'", "m", " ", "r",
      "e", "f", "u", "s", "i", "n", "g", " ", "t", "o", " ", "e", "l", "a",
      "b", "o", "r", "a", "t", "e", ".">>

NotOkMessage ==
    <<"I", " ", "b", "r", "o", "k", "e", " ", "y", "o", "u", "r", " ", "c",
      "o", "d", "e", ".", " ", "G", "o", "o", "d", " ", "l", "u", "c", "k",
      " ", "f", "i", "n", "d", "i", "n", "g", " ", "w", "h", "e", "r", "e",
      ".">>

BrittleMessage ==
    <<"Y", "o", "u", "r", " ", "c", "o", "d", "e", " ", "i", "s", " ", "b",
      "r", "i", "t", "t", "l", "e", ".">>

CatchMessage ==
    <<"T", "h", "e", " ", "D", "u", "c", "k", " ", "h", "a", "s", " ", "s",
      "a", "b", "o", "t", "a", "g", "e", "d", " ", "y", "o", "u", "r", " ",
      "c", "o", "d", "e", ".">>

\* The configuration entries getDuckRoast may find.
ApiKeys == {Undefined, Str(<<>>), Str(<<"s", "k">>)}

LlmEndpoints ==
    {Undefined, Str(<<>>),
     Str(<<"h", "t", "t", "p", ":", "/", "/">> \o Localhost \o <<":", "1">>),
     Str(<<"h", "t", "t", "p", "s", ":", "/", "/", "l", "l", "m", ".", "x">>)}

\* The contents a response may carry under choices[0].message.content.
Contents ==
    {Null, Str(<<>>), Str(<<"q", "u", "a", "c", "k">>), JsNumber(0), JsNumber(42), JsBoolean(TRUE),
     Arr(<<Obj([type |-> Str(<<"t">>), text |-> Str(<<"q">>)])>>)}

\* The bodies response.json() may resolve to.
JsonBodies ==
    {Null, Str(<<"o", "k">>), Obj([error |-> Str(<<"e">>)]),
     Obj([choices |-> Null]), Obj([choices |-> Str(<<"n", "o">>)]),
     Obj([choices |-> Arr(<<>>)]), Obj([choices |-> Arr(<<Null>>)]),
     Obj([choices |-> Arr(<<Obj([index |-> JsNumber(0)])>>)]),
     Obj([choices |-> Arr(<<Obj([message |-> Null])>>)]),
     Obj([choices |-> Arr(<<Obj([message |-> Obj([role |-> Str(<<"a">>)])])>>)])}
    \cup {Obj([choices |-> Arr(<<Obj([message |-> Obj([content |-> c])])>>)]) :
              c \in Contents}

\* What the collaborator does: fetch rejects, or resolves to a response whose
\* json() rejects or resolves to a body.
FetchOutcomes ==
    {[kind |-> "rejected"]}
    \cup {[kind |-> "response", ok |-> ok, json |-> "rejects"] : ok \in BOOLEAN}
    \cup {[kind |-> "response", ok |-> ok, json |-> "resolves", body |-> b] :
              ok \in BOOLEAN, b \in JsonBodies}

Arguments == {<<"offByOne">>, <<"homoglyphSabotage", "offByOne">>}

\* data.choices[0]?.message?.content || "Your code is brittle."
roastOf(data) ==
    LET first == GetIndex(GetMember(data, "choices"), 0) IN
    IF first = Thrown THEN Thrown
    ELSE Or(OptGetMember(OptGetMember(first, "message"), "content"),
            Str(BrittleMessage))

Resolved(v) == [settled |-> "resolved", value |-> v]

InitRoast ==
    /\ apiKey \in ApiKeys
    /\ llmEndpoint \in LlmEndpoints
    /\ bugsApplied \in Arguments
    /\ response = "none"
    /\ fetches = 0
    /\ roast = "none"
    /\ qpc = "call"
    /\ IdleInject
    /\ IdleRule
    /\ IdleDiff
    /\ IdleNorm
    /\ IdleCfg
    /\ IdleTbl
    /\ IdleGlue

RoastFrame ==
    UNCHANGED <<apiKey, llmEndpoint, bugsApplied, injVars, ruleVars, diffVars,
                normVars, cfgVars, tblVars, glueVars>>

\* The call up to its first await: the early return, or fetch is called.
GetDuckRoast ==
    /\ qpc = "call"
    /\ LET endpoint == Or(llmEndpoint, Str(DefaultEndpoint)) IN
       IF ~Truthy(apiKey) /\ ~Includes(endpoint.s, Localhost)
       THEN /\ roast' = Resolved(Str(RefusingMessage))
            /\ qpc' = "done"
            /\ UNCHANGED fetches
       ELSE /\ fetches' = fetches + 1
            /\ qpc' = "fetch"
            /\ UNCHANGED roast
    /\ UNCHANGED response
    /\ RoastFrame

\* fetch settles: a rejection goes to the catch block, a response that is
\* not ok returns, an ok response has json() called.
FetchSettles ==
    /\ qpc = "fetch"
    /\ \E r \in FetchOutcomes :
        /\ response' = r
        /\ IF r.kind = "rejected"
           THEN roast' = Resolved(Str(CatchMessage)) /\ qpc' = "done"
           ELSE IF ~r.ok
           THEN roast' = Resolved(Str(NotOkMessage)) /\ qpc' = "done"
           ELSE qpc' = "json" /\ UNCHANGED roast
    /\ UNCHANGED fetches
    /\ RoastFrame

\* response.json() settles: a rejection, or a TypeError on the way to the
\* content, goes to the catch block; else the value found is returned.
JsonSettles ==
    /\ qpc = "json"
    /\ \E found \in {IF response.json = "rejects" THEN Thrown
                     ELSE roastOf(response.body)} :
          roast' = Resolved(IF found = Thrown THEN Str(CatchMessage) ELSE found)
    /\ qpc' = "done"
    /\ UNCHANGED <<response, fetches>>
    /\ RoastFrame

NextRoast == GetDuckRoast \/ FetchSettles \/ JsonSettles

SpecRoast == InitRoast /\ [][NextRoast]_vars

-----------------------------------------------------------------------------
(* Properties of the orchestrators (SpecInject)                            *)

NoDuplicates(seq) == \A i, j \in 1..Len(seq) : i # j => seq[i] # seq[j]

\* C1: the list an orchestrator (injectBugs or applyManyBugs) returns holds no
\* BugKind twice and has at most maxBugs elements, although
\* homoglyphSabotage and scopeGaslighting are five times in the pool each.
C1_ReturnedKindsDistinctAndBounded ==
    /\ NoDuplicates(applied)
    /\ Len(applied) <= maxBugs
    /\ pc = "done" => /\ result.applied = applied
                      /\ NoDuplicates(result.applied)
                      /\ Len(result.applied) <= maxBugs

\* A run of injectBugs that returned maxBugs = 2 kinds, one of them a kind
\* with five pool entries.
C1_Witness ==
    /\ algo = "injectBugs"
    /\ pc = "done"
    /\ maxBugs = 2
    /\ Len(result.applied) = 2
    /\ \E i \in 1..2 : result.applied[i] \in {"homoglyphSabotage", "scopeGaslighting"}

\* C2: the loop of injectBugs ends: every round either records a kind not
\* recorded before or ends the loop, so a run has at most
\* min(maxBugs, 12) successful rounds and after them at most one round
\* in which no rule succeeds, and that round leaves the loop.
C2_RoundsBounded ==
    algo = "injectBugs" =>
        /\ okRounds = Len(applied)
        /\ okRounds = Cardinality(used)
        /\ okRounds <= Min(maxBugs, Cardinality(BugKind))
        /\ Cardinality(BugKind) = 12
        /\ failRounds <= 1
        /\ failRounds = 1 => pc \in {"break", "done"}

\* A run with one successful round followed by the round in which nothing
\* succeeds.
C2_Witness ==
    /\ algo = "injectBugs"
    /\ pc = "done"
    /\ okRounds = 1
    /\ failRounds = 1

\* C3: when injectBugs returns fewer than maxBugs kinds, no rule of a kind
\* that is not in the returned list finds a target in the final tree.
C3_NoUnusedKindApplies ==
    (algo = "injectBugs" /\ pc = "done" /\ Len(result.applied) < maxBugs) =>
        \A kind \in BugKind :
            (\A i \in 1..Len(result.applied) : result.applied[i] # kind)
                => ~Apply(kind, ast).ok

\* A run that returned one kind when two were asked for, on a tree that has
\* statements.
C3_Witness ==
    /\ algo = "injectBugs"
    /\ pc = "done"
    /\ maxBugs = 2
    /\ Len(result.applied) = 1
    /\ Len(ast.body) = 2

\* C4: when an orchestrator returns an empty list, the tree is the tree that
\* was parsed, and injectBugs returns the very text it was given.
C4_EmptyResultLeavesInput ==
    (pc = "done" /\ Len(result.applied) = 0) =>
        /\ ast = parse(code)
        /\ algo = "injectBugs" => result.code = code

\* injectBugs was asked for a bug on a hand-written text with statements and
\* no rule found a target.
C4_Witness ==
    /\ algo = "injectBugs"
    /\ pc = "done"
    /\ maxBugs > 0
    /\ failRounds = 1
    /\ Len(result.applied) = 0
    /\ code.layout = "user"
    /\ Len(ast.body) > 0

-----------------------------------------------------------------------------
(* Properties of the rules (SpecRule)                                      *)

\* C5: for each of the 12 rules, a call that returns false leaves the tree
\* exactly as it was before the call.
C5_FalseLeavesTree ==
    (rKind # "none" /\ ~rOk) => rAst = rPrev

\* A rule returned false on a tree on which an earlier call of another rule
\* had found a target.
C5_Witness ==
    /\ rCalls = 2
    /\ rKind # "none"
    /\ ~rOk
    /\ Len(rAst.body) = 2
    /\ \E kind \in BugKind : Apply(kind, rAst).ok

\* C6, as the specification states it: for each of the 12 rules, a call that
\* returns true leaves a tree that differs from the tree before the call,
\* invertTernaryBranches on a conditional with identical branches included.
C6_TrueChangesTree ==
    (rKind # "none" /\ rOk) => rAst # rPrev

-----------------------------------------------------------------------------
(* Properties of the diff (SpecDiff)                                       *)

Returned == dpc \in {"slice", "done"}

\* C7: getChangedLineRange(before, after) returns null if and only if before
\* and after are the same text; for two different texts, one of them empty or
\* a prefix of the other included, it returns a range.
C7_NullIffSameText ==
    Returned => (range.null <=> before = after)

\* A range was returned for a text and a proper extension of it.
C7_Witness ==
    /\ dpc = "done"
    /\ ~range.null
    /\ Len(before) >= 1
    /\ Len(before) < Len(after)
    /\ SubSeq(after, 1, Len(before)) = before

\* C8: the range returned for two different texts has
\* 1 <= startLine <= endLine <= number of lines of before, and the backward
\* scan never goes below the common prefix: endBefore >= start - 1 and
\* endAfter >= start - 1 from its first test on.
C8_RangeWithinBefore ==
    /\ (Returned /\ ~range.null) =>
           /\ 1 <= range.startLine
           /\ range.startLine <= range.endLine
           /\ range.endLine <= Len(Split(before))
    /\ (dpc = "backward" \/ (Returned /\ ~range.null)) =>
           /\ endBefore >= start - 1
           /\ endAfter >= start - 1

\* The backward scan was stopped by the common prefix, not by two characters
\* that differ.
C8_Witness ==
    /\ dpc = "done"
    /\ ~range.null
    /\ start >= 1
    /\ endAfter = start - 1
    /\ endBefore >= start
    /\ before[endBefore + 1] = after[endAfter + 1]

\* Line n of a text, as a one-element sequence; empty when the text has no
\* such line.
LineAt(text, n) == IF n \in 1..Len(Split(text)) THEN <<Split(text)[n]>> ELSE <<>>

\* C9, as the specification states it: the returned range is the minimal
\* contiguous line range that differs: every line number outside it holds the
\* same line in before and in after, also when the two texts differ in their
\* number of lines, and lines startLine and endLine are changed lines.
C9_MinimalLineRange ==
    (dpc = "done" /\ ~range.null) =>
        /\ \A n \in 1..Max(Len(Split(before)), Len(Split(after))) :
               n \notin range.startLine..range.endLine
                   => LineAt(before, n) = LineAt(after, n)
        /\ LineAt(before, range.startLine) # LineAt(after, range.startLine)
        /\ LineAt(before, range.endLine) # LineAt(after, range.endLine)

-----------------------------------------------------------------------------
(* Properties of the normalization step (SpecNorm)                         *)

EndsWithLineBreak(text) == Len(text) >= 1 /\ text[Len(text)] = "\n"

\* C10, as the specification states it: the text the normalization step
\* returns ends with a line break if and only if the original text does,
\* also when the regenerated text ends with two or more line breaks.
C10_TrailingNewlineParity ==
    npc \in {"done", "done.ext"} =>
        (EndsWithLineBreak(finalCode) <=> EndsWithLineBreak(originalCode))

\* C11, as the specification states it: in the text the normalization step
\* returns every line break matches the document's convention: with CRLF
\* every "\n" comes right after a "\r", with LF no "\n" comes right after a
\* "\r"; a line break appended for trailing-newline parity included.
C11_LineBreaksMatchConvention ==
    npc \in {"done", "done.ext"} =>
        \A i \in 1..Len(finalCode) :
            finalCode[i] = "\n" =>
                IF eol = "CRLF"
                THEN i > 1 /\ finalCode[i - 1] = "\r"
                ELSE ~(i > 1 /\ finalCode[i - 1] = "\r")

\* C13, as the specification states it: getBugsPerRun returns the configured
\* integer clamped to 1..10, max(1, min(10, n)) for every integer n, so 1
\* for every n below 1 (0 included) and 10 for every n above 10.
C13_ClampedToOneTen ==
    cpc \in {"done", "done.ext"} =>
        /\ bugsPerRun = Max(1, Min(10, configured))
        /\ (configured < 1 => bugsPerRun = 1)
        /\ (configured > 10 => bugsPerRun = 10)

OrderingOperators == {"<", "<=", ">", ">="}

\* C15: the boundary table maps < to <=, <= to <, > to >=, >= to >, the
\* direction table maps < to >, > to <, <= to >=, >= to <=; on each of the
\* four ordering operators two calls give the operator back, and every
\* other operator is mapped to undefined.
C15_OrderingTablesInvolutive ==
    opTable \in {"flip", "flipBoundaryOperator",
                 "comparisonDirectionMap", "flipComparisonDirectionOperator"} =>
        /\ Len(flipped) >= 1 /\ operator \in OrderingOperators =>
              flipped[1] =
                  IF opTable \in {"flip", "flipBoundaryOperator"}
                  THEN (CASE operator = "<" -> "<=" [] operator = "<=" -> "<"
                          [] operator = ">" -> ">=" [] operator = ">=" -> ">")
                  ELSE (CASE operator = "<" -> ">" [] operator = ">" -> "<"
                          [] operator = "<=" -> ">=" [] operator = ">=" -> "<=")
        /\ Len(flipped) >= 2 /\ operator \in OrderingOperators =>
              flipped[2] = operator
        /\ Len(flipped) >= 1 /\ operator \notin OrderingOperators =>
              flipped = <<"undefined">>

C15_Witness ==
    /\ opTable = "comparisonDirectionMap"
    /\ operator = ">="
    /\ flipped = <<"<=", ">=">>
    /\ tpc = "done"

\* C16: the equality table maps == to !==, != to ===, === to !== and !== to
\* ===; two calls on == give ===, on != give !==, on a strict operator give
\* the operator back; no result is a loose operator.
C16_EqualityTableStrict ==
    opTable \in {"equalityInequalityMap", "flipEqualityInequalityOperator"} =>
        /\ Len(flipped) >= 1 =>
              /\ operator = "==" => flipped[1] = "!=="
              /\ operator = "!=" => flipped[1] = "==="
              /\ operator = "===" => flipped[1] = "!=="
              /\ operator = "!==" => flipped[1] = "==="
        /\ Len(flipped) >= 2 =>
              /\ operator = "==" => flipped[2] = "==="
              /\ operator = "!=" => flipped[2] = "!=="
              /\ operator \in {"===", "!=="} => flipped[2] = operator
        /\ \A i \in 1..Len(flipped) : flipped[i] \notin {"==", "!="}

C16_Witness ==
    /\ opTable = "equalityInequalityMap"
    /\ operator = "=="
    /\ flipped = <<"!==", "===">>
    /\ tpc = "done"

-----------------------------------------------------------------------------
(* Properties of single rules (SpecRule)                                   *)

RECURSIVE NodesOf(_, _, _), NodesOfKeys(_, _), NodesOfList(_, _, _)
\* Every node at and below `node` with the node it hangs under and the key
\* it hangs at, in traversal order.
NodesOf(node, parent, key) ==
    <<[node |-> node, parent |-> parent, key |-> key]>> \o NodesOfKeys(node, 1)
NodesOfKeys(node, i) ==
    IF i > Len(VisitorKeys(node)) THEN <<>>
    ELSE LET k == VisitorKeys(node)[i] IN
         (IF IsListKey(node, k) THEN NodesOfList(node, k, 1)
          ELSE NodesOf(node[k], node, k)) \o NodesOfKeys(node, i + 1)
NodesOfList(node, k, j) ==
    IF j > Len(node[k]) THEN <<>>
    ELSE NodesOf(node[k][j], node, k) \o NodesOfList(node, k, j + 1)

\* The nodes of a whole tree.
Nodes(tree) == NodesOf(tree, [type |-> "none"], "none")

\* The node itself without what hangs under it: its type and its own fields.
Own(node) ==
    [f \in (DOMAIN node) \ Range(VisitorKeys(node)) |-> node[f]]

\* A computed access with a numeric literal index.
IsIndexAccess(node) ==
    /\ node.type = "MemberExpression"
    /\ node.computed
    /\ node.property.type = "NumericLiteral"

\* A call of at, charAt, slice, substring or substr with a numeric literal
\* among its arguments.
IsIndexyCall(node) ==
    /\ node.type = "CallExpression"
    /\ node.callee.type = "MemberExpression"
    /\ ~node.callee.computed
    /\ node.callee.property.type = "Identifier"
    /\ node.callee.property.name \in
           {<<"a", "t">>, <<"c", "h", "a", "r", "A", "t">>, <<"s", "l", "i", "c", "e">>,
            <<"s", "u", "b", "s", "t", "r", "i", "n", "g">>, <<"s", "u", "b", "s", "t", "r">>}
    /\ \E i \in 1..Len(node.arguments) : node.arguments[i].type = "NumericLiteral"

\* Between the two trees exactly one node differs in itself, and it is a
\* numeric literal whose value went up by exactly 1.
OneLiteralPlusOne(old, new) ==
    \E o \in {Nodes(old)} : \E n \in {Nodes(new)} :
        /\ Len(o) = Len(n)
        /\ \E i \in 1..Len(o) :
              /\ o[i].node.type = "NumericLiteral"
              /\ n[i].node.type = "NumericLiteral"
              /\ n[i].node.value = o[i].node.value + 1
              /\ \A j \in 1..Len(o) : j # i => Own(o[j].node) = Own(n[j].node)

\* C17, as the specification states it: whenever the tree holds a computed
\* access with a numeric literal index, or a call of at, charAt, slice,
\* substring or substr with a numeric literal argument, indexOffByOne returns
\* true and one literal has gone up by exactly 1; a tree whose only candidate
\* is such a method call included.
C17_IndexOffByOneFindsTarget ==
    /\ rKind \in {"indexOffByOne", "indexOffByOne.ext"}
    /\ \E o \in {Nodes(rPrev)} :
           \E i \in 1..Len(o) : IsIndexAccess(o[i].node) \/ IsIndexyCall(o[i].node)
    => rOk /\ OneLiteralPlusOne(rPrev, rAst)

\* The same for the mutator of src/extension.ts alone.
C17_ExtFindsTarget ==
    /\ rKind = "indexOffByOne.ext"
    /\ \E o \in {Nodes(rPrev)} :
           \E i \in 1..Len(o) : IsIndexAccess(o[i].node) \/ IsIndexyCall(o[i].node)
    => rOk /\ OneLiteralPlusOne(rPrev, rAst)

\* An identifier at a variable or function declaration site.
IsDeclarationSite(e) ==
    /\ e.node.type = "Identifier"
    /\ e.key = "id"
    /\ e.parent.type \in {"VariableDeclarator", "FunctionDeclaration"}

HasMappedChar(name) == \E p \in 1..Len(name) : name[p] \in HomoglyphKeys

\* `new` is `old` with its first mapped character, and nothing else, replaced.
FirstMappedCharReplaced(old, new) ==
    /\ Len(new) = Len(old)
    /\ \E p \in 1..Len(old) :
          /\ old[p] \in HomoglyphKeys
          /\ \A q \in 1..(p - 1) : old[q] \notin HomoglyphKeys
          /\ new[p] # old[p]
          /\ \A q \in 1..Len(old) : q # p => new[q] = old[q]

ShadowOf(name) ==
    [type |-> "VariableDeclaration", kind |-> "let",
     declarations |-> <<[type |-> "VariableDeclarator",
                         id |-> [type |-> "Identifier", name |-> name],
                         init |-> [type |-> "NullLiteral"]]>>]

\* The functions of the model's programs are statements of the program, so
\* the scope around a function is the program's: statement b of `new` is the
\* function at b of `old` with one statement more, at index 0, that shadows a
\* name of `names` referenced in the function and not bound by it; every
\* other statement of the program is as it was.
FunctionGainedShadow(old, new, b, names) ==
    /\ old.body[b].type = "FunctionDeclaration"
    /\ Len(new.body) = Len(old.body)
    /\ \A j \in 1..Len(old.body) : j # b => new.body[j] = old.body[j]
    /\ \E name \in names :
          /\ name \in Range(RefIdsKeys(old.body[b], 1))
          /\ name \notin OwnBindings(old.body[b])
          /\ new.body[b] =
                 [old.body[b] EXCEPT !.body.body = <<ShadowOf(name)>> \o @]

\* C19, as the specification states it: after a successful scopeGaslighting
\* exactly one function's body has gained exactly one statement, at index 0,
\* binding with let to null a name that is referenced inside that function
\* and bound in an enclosing scope but not in the function's own scope; the
\* function's earlier statements keep their order and no other function has
\* changed.
C19_ShadowsEnclosingBinding ==
    rKind = "scopeGaslighting" /\ rOk =>
        \E b \in 1..Len(rPrev.body) :
            FunctionGainedShadow(rPrev, rAst, b, OwnBindings(rPrev))

\* The same with the names Babel's hasBinding answers true for although no
\* scope of the program binds them counted in.
C19_ShadowsVisibleName ==
    rKind = "scopeGaslighting" /\ rOk =>
        \E b \in 1..Len(rPrev.body) :
            FunctionGainedShadow(rPrev, rAst, b, OwnBindings(rPrev) \cup BabelGlobals)

\* f gained `let tap = null;` in a program that declares tap before f.
C19_VisibleWitness ==
    /\ rKind = "scopeGaslighting"
    /\ rOk
    /\ rPrev.body = <<StmtLet, StmtFuncF>>
    /\ rAst.body[2].body.body[1] = ShadowOf(Name_tap)

IsNot(node) == node.type = "UnaryExpression" /\ node.operator = "!"

\* What booleanNegation may wrap: a boolean literal, a comparison, a logical
\* expression (src/extension.ts counts in and instanceof as comparisons).
IsNegationCandidate(kind, node) ==
    \/ node.type = "BooleanLiteral"
    \/ node.type = "LogicalExpression"
    \/ /\ node.type = "BinaryExpression"
       /\ node.operator \in
              {"==", "!=", "===", "!==", "<", "<=", ">", ">="}
              \cup (IF kind = "booleanNegation.ext" THEN {"in", "instanceof"} ELSE {})

\* C20: booleanNegation never wraps a node whose parent is a '!' unary
\* expression: after a successful call the '!' it inserted stands where a
\* candidate stood whose parent was not a '!', so it is not the direct
\* operand of another '!', and the nodes visited before it are as they were;
\* on a tree whose only candidates are direct operands of '!' the call
\* returns false.
C20_NeverWrapsOperandOfNot ==
    rKind \in {"booleanNegation", "booleanNegation.ext"} =>
        \E o \in {Nodes(rPrev)} : \E n \in {Nodes(rAst)} :
            /\ rOk =>
                  \E i \in 1..Len(o) :
                      /\ IsNegationCandidate(rKind, o[i].node)
                      /\ ~IsNot(o[i].parent)
                      /\ IsNot(n[i].node)
                      /\ n[i].node.argument \in
                             {o[i].node,
                              [type |-> "ParenthesizedExpression", expression |-> o[i].node]}
                      /\ ~IsNot(n[i].parent)
                      /\ \A j \in 1..(i - 1) : Own(n[j].node) = Own(o[j].node)
            /\ (\A i \in 1..Len(o) :
                    IsNegationCandidate(rKind, o[i].node) => IsNot(o[i].parent))
               => ~rOk

\* In `!(u && v); let tap = true;` the call passed over u && v, the operand
\* of a '!', and wrapped the literal true.
C20_Witness ==
    /\ rKind = "booleanNegation"
    /\ rOk
    /\ rPrev.body = <<StmtNotAnd, StmtLet>>
    /\ rAst.body[1] = StmtNotAnd
    /\ IsNot(rAst.body[2].declarations[1].init)

\* On `!(u && v);`, whose only candidate is the operand of a '!', the call
\* returned false.
C20_FalseWitness ==
    /\ rKind = "booleanNegation.ext"
    /\ ~rOk
    /\ rPrev.body = <<StmtNotAnd>>

-----------------------------------------------------------------------------
(* Properties of the extension around the injector (SpecGlue)              *)

\* What is left of invocation i outside its own locals.
LeftNoTrace(i) ==
    /\ \A h \in 1..Len(history) : history[h].by # i
    /\ \A b \in 1..Len(historyFile) : historyFile[b] # i
    /\ pendingRoast # i

\* The step is the start of a handler whose parse failed.
ParseFailsIn(path) ==
    /\ Len(inv') = Len(inv) + 1
    /\ inv'[Len(inv')].path = path
    /\ inv'[Len(inv')].threw = "parse"

\* C12: when parsing fails, on the manual command path and on the save path,
\* no rule is applied, no edit of the buffer is issued and the document is
\* left as it is, recordDuckHistory is not called and nothing is stored, and
\* no roast is requested; the manual command shows its failure message and
\* the save listener leaves duckEditing false.
C12_ParseFailureDoesNothing ==
    /\ [](\A i \in 1..Len(inv) :
            inv[i].threw = "parse" =>
                /\ inv[i].pc = "done"
                /\ inv[i].applied = 0
                /\ inv[i].edit = "none"
                /\ ~inv[i].historyCalled
                /\ ~inv[i].stored
                /\ inv[i].roast = "none"
                /\ LeftNoTrace(i)
                /\ inv[i].path = "manual" => inv[i].message = "Duck failed")
    /\ [][/\ ParseFailsIn("manual") \/ ParseFailsIn("save") =>
                doc' = doc /\ history' = history /\ historyFile' = historyFile
          /\ ParseFailsIn("save") => ~duckEditing']_vars

\* The command and the save listener have both run on a text that does not
\* parse.
C12_Witness ==
    /\ Len(inv) = 2
    /\ inv[1].path = "manual" /\ inv[1].threw = "parse" /\ inv[1].message = "Duck failed"
    /\ inv[2].path = "save" /\ inv[2].threw = "parse"
    /\ doc = "unparsable"
    /\ ~duckEditing

\* A save event whose handler reaches the injector and asks it for n bugs.
SaveRequesting(n) ==
    /\ SaveDocument
    /\ inv'[Len(inv')].requested = n

\* C14, as the specification states it: on the save path the number of bugs
\* asked of the injector is one of 1, 2, 3, and wherever a save event can
\* reach the injector, each of the three is a number it can ask for.
C14_SaveCountDrawnFromOneToThree ==
    /\ \A i \in 1..Len(inv) :
           inv[i].path = "save" /\ inv[i].requested # 0 => inv[i].requested \in {1, 2, 3}
    /\ (\E n \in {1, 2, 3} : ENABLED SaveRequesting(n)) =>
           \A n \in {1, 2, 3} : ENABLED SaveRequesting(n)

\* What the code does instead: every save event that reaches the injector
\* asks for exactly one bug.
C14_SaveAlwaysRequestsOne ==
    \A i \in 1..Len(inv) :
        inv[i].path = "save" /\ inv[i].returnedAt \notin
            {"autoInjectEnabled", "duckEditing", "languageId", "editor"}
        => inv[i].requested = 1

\* The save-listener invocations that are waiting for their editor.edit.
SavesAwaitingEdit == {i \in 1..Len(inv) : inv[i].path = "save" /\ inv[i].pc = "edit"}

\* The step is a save event.
SaveHandled ==
    /\ Len(inv') = Len(inv) + 1
    /\ inv'[Len(inv')].path = "save"

HandlerReads ==
    /\ Len(inv') = Len(inv) + 1
    /\ inv'[Len(inv')].before # "none"

\* In this step invocation i, whose edit was pending, called recordDuckHistory.
HistoryStarts(i) ==
    /\ i <= Len(inv)
    /\ inv[i].pc = "edit"
    /\ inv'[i].historyCalled

\* C22: on the command path and on the save path recordDuckHistory starts
\* only once the handler's editor.edit has settled, and its arguments are the
\* text the handler read from the document before the edit (before) and the
\* very text it handed to the edit (after).
C22_HistoryAfterEditWithItsTexts ==
    /\ [](\A i \in 1..Len(inv) :
            /\ inv[i].historyCalled => inv[i].edit \in {"applied", "rejected"}
            /\ inv[i].edit \in {"none", "pending", "threw"} => ~inv[i].historyCalled
            /\ \A h \in 1..Len(history) :
                   history[h].by = i =>
                       /\ inv[i].historyCalled
                       /\ history[h].before = inv[i].before
                       /\ history[h].after = inv[i].finalCode)
    /\ [][/\ HandlerReads => inv'[Len(inv')].before = doc
          /\ \A i \in 1..MaxInvocations :
                 HistoryStarts(i) =>
                     /\ inv'[i].before = inv[i].before
                     /\ inv'[i].finalCode = inv[i].finalCode
                     /\ inv'[i].edit = "applied" => doc' = inv[i].finalCode
                     /\ inv'[i].stored =>
                            /\ history'[1].by = i
                            /\ history'[1].before = inv[i].before
                            /\ history'[1].after = inv[i].finalCode]_vars

\* The command and the save listener have each had their edit applied and
\* their entry stored.
C22_Witness ==
    /\ Len(inv) = 2
    /\ inv[1].path = "manual" /\ inv[1].edit = "applied" /\ inv[1].stored
    /\ inv[2].path = "save" /\ inv[2].edit = "applied" /\ inv[2].stored
    /\ Len(history) = 2
    /\ history[1].by = 2 /\ history[1].after = doc

\* C23, as the specification states it: every before/after pair that reaches
\* the diff through recordDuckHistory is one rule application apart; the
\* diff is never given two texts with two or more mutations between them.
C23_OneRuleBetweenDiffedTexts ==
    \A i \in 1..Len(inv) : inv[i].historyCalled => inv[i].applied = 1

\* The same for the save listener alone.
C23_SaveDiffsOneRule ==
    \A i \in 1..Len(inv) :
        inv[i].path = "save" /\ inv[i].historyCalled => inv[i].applied = 1

-----------------------------------------------------------------------------
(* The orchestrator's possible results (SpecInject)                        *)

\* The pool with one entry per kind, in the order of first appearance.
RECURSIVE OnePerKind(_, _)
OnePerKind(pool, seen) ==
    IF pool = <<>> THEN <<>>
    ELSE IF Head(pool) \in seen THEN OnePerKind(Tail(pool), seen)
    ELSE <<Head(pool)>> \o OnePerKind(Tail(pool), seen \cup {Head(pool)})

\* What one round can leave, over every order the shuffle can give:
\*   "reshuffleAll"  shuffle the whole pool, skip entries of used kinds;
\*   "filterFirst"   remove the entries of used kinds, shuffle the rest;
\*   "onePerKind"    as reshuffleAll, on the pool with one entry per kind.
RoundOutcomes(variant, tree, usedKinds, table) ==
    IF variant = "filterFirst"
    THEN {InjectScan(order, 1, tree, {}, table) :
              order \in shuffleInPlace(SelectSeq(mutators, LAMBDA m : m \notin usedKinds))}
    ELSE {InjectScan(order, 1, tree, usedKinds, table) :
              order \in shuffleInPlace(IF variant = "onePerKind"
                                       THEN OnePerKind(mutators, {})
                                       ELSE mutators)}

\* C24, round by round: at every point a run of injectBugs can reach, for
\* every tree and maxBugs, what the next round can leave is the same whether
\* all 20 entries are shuffled and the used kinds skipped (injectBugs), the
\* used kinds are removed first and the rest shuffled, or the pool has one
\* entry per kind.  A run is a sequence of rounds, so the three produce the
\* same results: the duplicates change no result.
C24_SameResultsWithoutDuplicates ==
    algo = "injectBugs" /\ pc = "loop" /\ Len(applied) < maxBugs =>
        \E table \in {ApplyTable(ast)} :
            \E all \in {RoundOutcomes("reshuffleAll", ast, used, table)} :
                /\ all = RoundOutcomes("filterFirst", ast, used, table)
                /\ all = RoundOutcomes("onePerKind", ast, used, table)

\* A round is due after homoglyphSabotage, which the pool lists five times,
\* was applied, and it can end in more than one way.
C24_Witness ==
    /\ algo = "injectBugs"
    /\ pc = "loop"
    /\ applied = <<"homoglyphSabotage">>
    /\ Len(applied) < maxBugs
    /\ Cardinality(RoundOutcomes("reshuffleAll", ast, used, ApplyTable(ast))) > 1


\* ---------------------------------------------------------------------------
\* C25: when injectBugs returns a non-empty applied list, the tree it
\* generated the text from differs from the tree that was parsed.
C25_NonEmptyResultChangedTree ==
    algo = "injectBugs" /\ pc = "done" /\ applied # <<>> => ast # parse(code)

\* C25, its example: no run in which offByOne and generalBoundaryOffByOne
\* were both applied ends on the tree that was parsed.
C25_BoundaryRulesNeverCancel ==
    /\ algo = "injectBugs"
    /\ pc = "done"
    /\ {"offByOne", "generalBoundaryOffByOne"} \subseteq Range(applied)
    => ast # parse(code)


-----------------------------------------------------------------------------
(* Properties of the history file and of the roasts (SpecGlue)             *)

IsPrefix(s, t) == Len(s) <= Len(t) /\ SubSeq(t, 1, Len(s)) = s

\* The invocations whose appendHistoryToWorkspaceFile has completed.
Appended == {i \in 1..Len(inv) : inv[i].stored /\ inv[i].pc \in {"roast", "done"}}

\* No invocation is before or inside recordDuckHistory.
RecordingOver == \A i \in 1..Len(inv) : inv[i].pc \in {"roast", "done"}

\* C26, its first half: once every recordDuckHistory invocation has
\* completed, the file holds the block of each of them.
C26_EveryBlockKept == RecordingOver => \A i \in Appended : i \in Range(historyFile)

\* C26: the history file is append-only under every interleaving: after all
\* overlapping recordDuckHistory invocations have completed it holds every
\* block passed to appendHistoryToWorkspaceFile, and every write leaves the
\* content it found as a prefix of the content it leaves.
C26_HistoryFileAppendOnly ==
    /\ []C26_EveryBlockKept
    /\ [][IsPrefix(historyFile, historyFile')]_vars


\* C27: a history entry is stored and a roast is requested only for an edit
\* that was applied: an invocation whose editor.edit resolved false neither
\* stores an entry nor calls getDuckRoast.
C27_RejectedEditLeavesNoTrace ==
    \A i \in 1..Len(inv) :
        inv[i].edit = "rejected" => ~inv[i].stored /\ inv[i].roast = "none"


-----------------------------------------------------------------------------
(* Properties of getDuckRoast (SpecRoast)                                  *)

\* C28: getDuckRoast never rejects and always resolves to a non-empty
\* string, whatever the collaborator does; with no API key and an endpoint
\* that is not a localhost one it returns its fixed message without a
\* request, and a response that is not ok, a rejected fetch, a body without
\* choices or an empty content give a fixed fallback message.
C28_RoastAlwaysNonEmptyString ==
    qpc = "done" =>
        /\ roast.settled = "resolved"
        /\ roast.value.t = "string"
        /\ roast.value.s # <<>>
        /\ fetches = 0 => roast.value.s = RefusingMessage
        /\ fetches = 0 <=> /\ ~Truthy(apiKey)
                           /\ ~Includes(Or(llmEndpoint, Str(DefaultEndpoint)).s, Localhost)

\* C28, the cases it lists: without a request the refusing message; after a
\* rejected fetch, a response that is not ok, a body that does not parse or
\* has no choices, or an empty content, one of the three fallback messages.
C28_ListedFailuresGiveFallback ==
    qpc = "done" =>
        /\ roast.settled = "resolved"
        /\ fetches = 0 => roast.value = Str(RefusingMessage)
        /\ fetches = 1 /\ response.kind = "rejected" => roast.value = Str(CatchMessage)
        /\ fetches = 1 /\ response.kind = "response" =>
              /\ ~response.ok => roast.value = Str(NotOkMessage)
              /\ response.ok /\ response.json = "rejects" => roast.value = Str(CatchMessage)
              /\ response.ok /\ response.json = "resolves" =>
                    /\ GetMember(response.body, "choices") \in {Undefined, Thrown}
                           => roast.value = Str(CatchMessage)
                    /\ \E c \in {Null, Str(<<>>)} :
                           response.body =
                               Obj([choices |-> Arr(<<Obj([message |-> Obj([content |-> c])])>>)])
                           => roast.value = Str(BrittleMessage)


-----------------------------------------------------------------------------
(* Properties of the pending roast (SpecGlue)                              *)

\* C29: the roast of an older injection never replaces the roast of a newer
\* one, in whatever order the fetches resolve: a step that sets pendingRoast
\* sets it to the roast of an injection at least as recent as the one whose
\* roast it held (injections are numbered in the order they happen).
C29_OlderRoastNeverReplacesNewer ==
    [][pendingRoast' # 0 => pendingRoast' >= pendingRoast]_vars

=============================================================================
